---- MODULE Spec2Model ----
(***************************************************************************)
(* A model of the document segmentation and chunking engine of             *)
(* llm-migrator: the table-aware chunker (_chunkByParagraphsAndTables),    *)
(* chunkDocument of the Word and the PDF chunker, their text cleansers,    *)
(* the section classifier (_identifySections and its two strategies), the  *)
(* extraction of the header metadata, createChunkerModule, the ids of the  *)
(* chunks, and the pipeline around them: the watcher callback of main with *)
(* its promise queue, the three event handlers and the database module.    *)
(*                                                                         *)
(* Text is a sequence of tokens.  A token is a record [k, n], n the        *)
(* number of words it holds when it stands alone:                          *)
(*   k = "pb"      the two characters "\n\n"                               *)
(*   k = "nl"      one "\n"                                                *)
(*   k = "sp"      one space                                               *)
(*   k = "w"       n words separated by single spaces, not starting "|"    *)
(*   k = "t"       n words of a markdown table, the first starting "|"     *)
(*   k = "title"   a line "Procedure Title: X" without its newline         *)
(*   k = "numline" a line "Number: N Effective: D Revision: R"             *)
(*   k = "dd"      the two dashes "--"                                     *)
(*   k = "num"     a run of digits                                         *)
(*   k = "of"      the word "of"                                           *)
(*   k = "colon"   ":"                                                     *)
(*   k = "u"       a run of n underscores (one word)                       *)
(*   k = "Date", "Name", "Title", "Signature", "Comment", "Comments",      *)
(*       "Approval": that word; "letters": another word of letters, none   *)
(*       of the others its suffix                                          *)
(*   k = "imgpre"  "data:image/png;base64,"                                *)
(*   k = "imgrest" ":image/png;base64,", what is left of an "imgpre" whose *)
(*                 first four letters were taken as image payload          *)
(*   k = "b64"     image payload such as "iVBOR+/=", not letters only      *)
(*   k = "imgtag"  "[IMAGE]"                                               *)
(*   k = "[SIGNATURE DATE REQUIRED]", ...: the text a signature rule puts  *)
(*                 in place of the underscores                             *)
(* Tokens that are not white space and stand side by side are glued: they  *)
(* form one word, plus the words their inner spaces add.                   *)
(***************************************************************************)
EXTENDS Integers, Sequences, FiniteSets, TLC

\* ------------------------------------------------------------------ bounds
\* Largest number of paragraphs or table blocks of an input document.
MaxSections == 4
\* Largest number of paragraphs or table blocks of a document that is
\* chunked twice.
MaxRerunSections == 3
\* Largest number of list items that begin with a <strong> title of letters.
MaxAlphaItems == 6
\* Largest number of list items that do not begin with a <strong> run.
MaxPlainItems == 4
\* Largest number of numbered <h1> headings.
MaxHeadings == 5
\* Largest number of tokens of a text handed to the Word cleanser alone.
MaxWordTokens == 4
\* Largest number of pieces (a token or a whole page marker) of a text
\* handed to the PDF cleanser alone.
MaxPdfPieces == 6
\* Largest number of events the watcher delivers.
MaxEvents == 3
\* Largest number of chunks a document of the pipeline gives.
MaxChunks == 2
\* Latest time the clock reads; its first reading is 1.
MaxClock == 2

\* ------------------------------------------------------- program constants
targetWords == 400
overlapWords == 50

\* ------------------------------------------------------------------ tokens
PB == [k |-> "pb", n |-> 0]
NL == [k |-> "nl", n |-> 0]
SP == [k |-> "sp", n |-> 0]
W(n) == [k |-> "w", n |-> n]
T(n) == [k |-> "t", n |-> n]
DD == [k |-> "dd", n |-> 1]
NUM == [k |-> "num", n |-> 1]
OF == [k |-> "of", n |-> 1]
COLON == [k |-> "colon", n |-> 1]
U(n) == [k |-> "u", n |-> n]
LW(kind) == [k |-> kind, n |-> 1]
IMGPRE == [k |-> "imgpre", n |-> 1]
IMGREST == [k |-> "imgrest", n |-> 1]
B64 == [k |-> "b64", n |-> 1]
FILLED(kind, n) == [k |-> kind, n |-> n]
\* A page marker "-- 1 of 2 --".
PM == <<DD, SP, NUM, SP, OF, SP, NUM, SP, DD>>
TITLE == [k |-> "title", n |-> 3]
NUMLINE == [k |-> "numline", n |-> 6]
IMGTAG == [k |-> "imgtag", n |-> 1]
\* An embedded image "data:image/png;base64,iVBOR+/=".
IMG == <<IMGPRE, B64>>
\* A signature line "Date: _____".
SIG == <<LW("Date"), COLON, SP, U(5)>>

SpaceKinds == {"pb", "nl", "sp"}
\* [A-Za-z]
LetterKinds ==
  {"Date", "Name", "Title", "Signature", "Comment", "Comments", "Approval",
   "letters", "of"}
\* [A-Za-z0-9+/=]
Base64Kinds == LetterKinds \cup {"num", "b64"}

\* The characters JavaScript's \s and String.prototype.trim treat as space.
IsSpace(tok) == tok.k \in SpaceKinds

\* Number of "\n" characters of a token.
Newlines(tok) == IF tok.k = "pb" THEN 2 ELSE IF tok.k = "nl" THEN 1 ELSE 0

RECURSIVE TrimStart(_)
TrimStart(s) ==
  IF s = <<>> THEN <<>>
  ELSE IF IsSpace(Head(s)) THEN TrimStart(Tail(s)) ELSE s

RECURSIVE TrimEnd(_)
TrimEnd(s) ==
  IF s = <<>> THEN <<>>
  ELSE IF IsSpace(s[Len(s)]) THEN TrimEnd(SubSeq(s, 1, Len(s) - 1)) ELSE s

\* String.prototype.trim
Trim(s) == TrimEnd(TrimStart(s))

\* s.trim().startsWith("|")
startsWithPipe(s) == Trim(s) # <<>> /\ Head(Trim(s)).k = "t"

\* Number of "\n" characters of a run of tokens.
RECURSIVE newlineCount(_)
newlineCount(run) ==
  IF run = <<>> THEN 0 ELSE Newlines(Head(run)) + newlineCount(Tail(run))

\* The words of a token that stands alone.
wordsOf(tok) == IF tok.k = "u" THEN 1 ELSE tok.n

\* The words of text from position p on; glued says that the token before
\* p is not white space, so that the token at p continues its last word.
RECURSIVE countFrom(_, _, _)
countFrom(text, p, glued) ==
  IF p > Len(text) THEN 0
  ELSE IF IsSpace(text[p]) THEN countFrom(text, p + 1, FALSE)
  ELSE (IF glued THEN wordsOf(text[p]) - 1 ELSE wordsOf(text[p]))
       + countFrom(text, p + 1, TRUE)

\* _countWords: text.split(/\s+/).filter(Boolean).length
countWords(s) == countFrom(s, 1, FALSE)

\* The first position >= p of text whose token is not of one of the kinds
\* (Len(text) + 1 if there is none): where a greedy run of a character
\* class that starts at p ends.
RECURSIVE skipKinds(_, _, _)
skipKinds(text, p, kinds) ==
  IF p > Len(text) \/ text[p].k \notin kinds THEN p
  ELSE skipKinds(text, p + 1, kinds)

\* First index >= i of text whose token holds no newline (Len(text)+1 if none).
RECURSIVE RunEnd(_, _)
RunEnd(text, i) ==
  IF i > Len(text) \/ Newlines(text[i]) = 0 THEN i ELSE RunEnd(text, i + 1)

RECURSIVE SplitFrom(_, _, _)
SplitFrom(text, i, cur) ==
  IF i > Len(text) THEN <<cur>>
  ELSE IF Newlines(text[i]) > 0
       THEN LET j == RunEnd(text, i)
                run == SubSeq(text, i, j - 1)
                count == newlineCount(run)
            IN IF count >= 2
               THEN <<cur>> \o SplitFrom(text, j, <<>>)
               ELSE SplitFrom(text, j, cur \o run)
       ELSE SplitFrom(text, i + 1, Append(cur, text[i]))

\* text.split(/\n\n+/): the pieces between maximal runs of two or more "\n".
splitBlankLines(text) == SplitFrom(text, 1, <<>>)

NonBlank(s) == Len(Trim(s)) > 0

\* text.split(/\n\n+/).filter((s) => s.trim().length > 0)
splitSections(text) == SelectSeq(splitBlankLines(text), NonBlank)

\* currentSections.join("\n\n")
RECURSIVE join(_)
join(secs) ==
  IF secs = <<>> THEN <<>>
  ELSE IF Len(secs) = 1 THEN secs[1]
  ELSE secs[1] \o <<PB>> \o join(Tail(secs))

\* ------------------------------------------------------------ text cleansing
\* text.replace(/<line of kind k>.*\n/i, ""): the first token of kind k is
\* removed with the rest of its line and the "\n" that ends the line; a line
\* that no "\n" ends is left alone.
removeLine(text, kind) ==
  IF \A p \in 1..Len(text) : text[p].k # kind THEN text
  ELSE LET p == CHOOSE x \in 1..Len(text) :
                  text[x].k = kind /\ \A y \in 1..(x - 1) : text[y].k # kind
           ends == {x \in (p + 1)..Len(text) : Newlines(text[x]) > 0}
       IN IF ends = {} THEN text
          ELSE LET q == CHOOSE x \in ends : \A y \in ends : x <= y
                   rest == IF text[q].k = "pb" THEN <<NL>> ELSE <<>>
               IN SubSeq(text, 1, p - 1) \o rest \o SubSeq(text, q + 1, Len(text))

\* PDFChunker._removeMetadataHeader
removeMetadataHeader(text) == Trim(removeLine(removeLine(text, "title"), "numline"))

\* The first position of a token of kind k, 0 when there is none.
firstOfKind(text, kind) ==
  LET found == {x \in 1..Len(text) : text[x].k = kind}
  IN IF found = {} THEN 0 ELSE CHOOSE x \in found : \A y \in found : x <= y

\* PDFChunker._extractDocumentMetadata: each field is the first match of its
\* pattern, trimmed, "unknown" when the pattern matches nowhere.  The title
\* (.+) runs to the end of the line of "Procedure Title: X": it is "X" when
\* only spaces follow on the line and "X ~", X and more text, otherwise.
\* The number (\S+) and the date (.+? up to "Revision:") lie inside the
\* "numline" token.  The revision (\S+) is "R", or "R~" when a token that is
\* not white space stands glued after the line.
extractDocumentMetadata(text) ==
  LET t == firstOfKind(text, "title")
      m == firstOfKind(text, "numline")
      ends == {x \in (t + 1)..Len(text) : Newlines(text[x]) > 0}
      lineEnd == IF ends = {} THEN Len(text) + 1
                 ELSE CHOOSE x \in ends : \A y \in ends : x <= y
      restOfLine == SubSeq(text, t + 1, lineEnd - 1)
      glued == m < Len(text) /\ text[m + 1].k \notin SpaceKinds
  IN [documentTitle |-> IF t = 0 THEN "unknown"
                        ELSE IF \A x \in 1..Len(restOfLine) : restOfLine[x].k = "sp"
                             THEN "X" ELSE "X ~",
      documentNumber |-> IF m = 0 THEN "unknown" ELSE "N",
      effectiveDate |-> IF m = 0 THEN "unknown" ELSE "D",
      revision |-> IF m = 0 THEN "unknown" ELSE IF glued THEN "R~" ELSE "R"]

\* Where the match of /--\s*\d+\s*of\s*\d+\s*--/i that starts at position p
\* ends (the position after it), 0 when none starts there.
markerEnd(text, p) ==
  IF text[p].k # "dd" THEN 0
  ELSE LET a == skipKinds(text, p + 1, SpaceKinds)
           b == skipKinds(text, a, {"num"})
           c == skipKinds(text, b, SpaceKinds)
           d == skipKinds(text, c + 1, SpaceKinds)
           e == skipKinds(text, d, {"num"})
           f == skipKinds(text, e, SpaceKinds)
       IN IF /\ b > a
             /\ c <= Len(text) /\ text[c].k = "of"
             /\ e > d
             /\ f <= Len(text) /\ text[f].k = "dd"
          THEN f + 1 ELSE 0

\* text.replace(/--\s*\d+\s*of\s*\d+\s*--/gi, ""): one scan from the left,
\* which goes on after each match and never looks at its own output.
RECURSIVE removeMarkersFrom(_, _)
removeMarkersFrom(text, p) ==
  IF p > Len(text) THEN <<>>
  ELSE IF markerEnd(text, p) > 0
       THEN removeMarkersFrom(text, markerEnd(text, p))
       ELSE <<text[p]>> \o removeMarkersFrom(text, p + 1)

\* PDFChunker._removePageMarkers
removePageMarkers(text) == Trim(removeMarkersFrom(text, 1))

\* PDFChunker._cleanseText
cleanseText(text) == removePageMarkers(removeMetadataHeader(text))

\* text.replace(/data:image\/[^;]+;base64,[A-Za-z0-9+/=]+/g, "[IMAGE]"): the
\* payload is the longest run of base64 characters after the prefix, the
\* letters "data" of a prefix that follows included.
RECURSIVE removeImgFrom(_, _)
removeImgFrom(text, p) ==
  IF p > Len(text) THEN <<>>
  ELSE IF text[p].k = "imgpre" /\ p < Len(text) /\ text[p + 1].k \in Base64Kinds
       THEN LET e == skipKinds(text, p + 1, Base64Kinds)
            IN IF e <= Len(text) /\ text[e].k = "imgpre"
               THEN <<IMGTAG, IMGREST>> \o removeImgFrom(text, e + 1)
               ELSE <<IMGTAG>> \o removeImgFrom(text, e)
  ELSE IF text[p].k = "imgpre" /\ p < Len(text) /\ text[p + 1].k = "imgpre"
       THEN <<IMGTAG, IMGREST>> \o removeImgFrom(text, p + 2)
  ELSE <<text[p]>> \o removeImgFrom(text, p + 1)

\* WordChunker._removeImgTagsFromText
removeImgTagsFromText(text) == removeImgFrom(text, 1)

\* The number of underscores of the run that starts at position p.
RECURSIVE underscoresAt(_, _)
underscoresAt(text, p) ==
  IF p > Len(text) \/ text[p].k # "u" THEN 0
  ELSE text[p].n + underscoresAt(text, p + 1)

\* Where the match of /<label>:\s*_{5,}/ ends whose label is the token at
\* position p, 0 when there is none: the label, a colon, white space, and
\* a whole run of five or more underscores.
signatureEnd(text, p, labels) ==
  IF text[p].k \in labels /\ p + 1 <= Len(text) /\ text[p + 1].k = "colon"
  THEN LET a == skipKinds(text, p + 2, SpaceKinds)
       IN IF underscoresAt(text, a) >= 5 THEN skipKinds(text, a, {"u"}) ELSE 0
  ELSE 0

\* result.replace(/<label>:\s*_{5,}/g, "<label>: <filled>"); label is <<>>
\* when the replacement keeps the matched label ($1), <<token>> otherwise.
RECURSIVE replaceLabelled(_, _, _, _, _)
replaceLabelled(text, p, labels, label, filled) ==
  IF p > Len(text) THEN <<>>
  ELSE IF signatureEnd(text, p, labels) > 0
       THEN <<IF label = <<>> THEN text[p] ELSE label[1], COLON, SP, filled>>
            \o replaceLabelled(text, signatureEnd(text, p, labels), labels,
                               label, filled)
       ELSE <<text[p]>> \o replaceLabelled(text, p + 1, labels, label, filled)

\* result.replace(/_{10,}/g, "[SIGNATURE LINE]")
RECURSIVE replaceLines_FirstOnly(_, _)
replaceLines_FirstOnly(text, p) ==
  IF p > Len(text) THEN <<>>
  ELSE IF underscoresAt(text, p) >= 10
       THEN <<FILLED("[SIGNATURE LINE]", 2)>>
            \o SubSeq(text, skipKinds(text, p, {"u"}), Len(text))
       ELSE <<text[p]>> \o replaceLines_FirstOnly(text, p + 1)

RECURSIVE replaceLines(_, _)
replaceLines(text, p) ==
  IF p > Len(text) THEN <<>>
  ELSE IF underscoresAt(text, p) >= 10
       THEN <<FILLED("[SIGNATURE LINE]", 2)>>
            \o replaceLines(text, skipKinds(text, p, {"u"}))
       ELSE <<text[p]>> \o replaceLines(text, p + 1)

\* WordChunker._normalizeSignatureLines: the eight replacements in order.
normalizeSignatureLines(text) ==
  LET r1 == replaceLabelled(text, 1, {"Date"}, <<LW("Date")>>,
                            FILLED("[SIGNATURE DATE REQUIRED]", 3))
      r2 == replaceLabelled(r1, 1, {"Name"}, <<LW("Name")>>,
                            FILLED("[SIGNATURE FIELD]", 2))
      r3 == replaceLabelled(r2, 1, {"Title"}, <<LW("Title")>>,
                            FILLED("[TO BE FILLED]", 3))
      r4 == replaceLabelled(r3, 1, {"Signature"}, <<LW("Signature")>>,
                            FILLED("[SIGNATURE REQUIRED]", 2))
      r5 == replaceLabelled(r4, 1, {"Comment", "Comments"}, <<LW("Comments")>>,
                            FILLED("[TO BE FILLED]", 3))
      r6 == replaceLabelled(r5, 1, {"Approval"}, <<>>,
                            FILLED("[APPROVAL SIGNATURE REQUIRED]", 3))
      r7 == replaceLabelled(r6, 1, LetterKinds \cup SpaceKinds, <<>>,
                            FILLED("[TO BE FILLED]", 3))
  IN replaceLines(r7, 1)

\* WordChunker.chunkDocument, step 4: the cleansing functions in order.
cleanseWord(text) == normalizeSignatureLines(removeImgTagsFromText(text))

\* ------------------------------------------------------------------- chunks
\* Document header metadata: <<>> is null, <<m>> is the record m.
SomeMetadata ==
  [documentTitle |-> "Software Change Control", documentNumber |-> "SOP-001",
   effectiveDate |-> "2024-01-01", revision |-> "3"]

\* Header metadata whose document number is the empty string.
NumberlessMetadata ==
  [documentTitle |-> "Software Change Control", documentNumber |-> "",
   effectiveDate |-> "2024-01-01", revision |-> "3"]

\* this._documentMetadata?.<field> ?? <default>
metadataField(md, field, default) == IF md = <<>> THEN default ELSE md[1][field]

\* _createChunk.  The id `${documentNumber}_chunk_${index}` is the pair of
\* its two parts; now is what new Date() reads.
createChunk_OneBased(md, content, index, now) ==
  [id |-> <<metadataField(md, "documentNumber", "doc"), index + 1>>,
   text |-> content,
   documentTitle |-> metadataField(md, "documentTitle", ""),
   documentNumber |-> metadataField(md, "documentNumber", ""),
   effectiveDate |-> metadataField(md, "effectiveDate", ""),
   revision |-> metadataField(md, "revision", ""),
   chunkIndex |-> index + 1,
   wordCount |-> countWords(content),
   contentType |-> IF startsWithPipe(content) THEN "table" ELSE "text",
   createdAt |-> now]

createChunk_IdWithoutIndex(md, content, index, now) ==
  [id |-> <<metadataField(md, "documentNumber", "doc"), 0>>,
   text |-> content,
   documentTitle |-> metadataField(md, "documentTitle", ""),
   documentNumber |-> metadataField(md, "documentNumber", ""),
   effectiveDate |-> metadataField(md, "effectiveDate", ""),
   revision |-> metadataField(md, "revision", ""),
   chunkIndex |-> index,
   wordCount |-> countWords(content),
   contentType |-> IF startsWithPipe(content) THEN "table" ELSE "text",
   createdAt |-> now]

createChunk_IdFromClock(md, content, index, now) ==
  [id |-> <<metadataField(md, "documentNumber", "doc"), now>>,
   text |-> content,
   documentTitle |-> metadataField(md, "documentTitle", ""),
   documentNumber |-> metadataField(md, "documentNumber", ""),
   effectiveDate |-> metadataField(md, "effectiveDate", ""),
   revision |-> metadataField(md, "revision", ""),
   chunkIndex |-> index,
   wordCount |-> countWords(content),
   contentType |-> IF startsWithPipe(content) THEN "table" ELSE "text",
   createdAt |-> now]

createChunk(md, content, index, now) ==
  [id |-> <<metadataField(md, "documentNumber", "doc"), index>>,
   text |-> content,
   documentTitle |-> metadataField(md, "documentTitle", ""),
   documentNumber |-> metadataField(md, "documentNumber", ""),
   effectiveDate |-> metadataField(md, "effectiveDate", ""),
   revision |-> metadataField(md, "revision", ""),
   chunkIndex |-> index,
   wordCount |-> countWords(content),
   contentType |-> IF startsWithPipe(content) THEN "table" ELSE "text",
   createdAt |-> now]

\* The if / else-if chain of the inner loop for one section: "first" (always
\* include at least one section), "exceed" (would pass targetWords * 1.2),
\* "table" (stop before a table) or "add".  nCurrent is
\* currentSections.length.
innerDecision_NoTableBreak(nCurrent, wc, sectionWords, isTable) ==
  IF nCurrent = 0 THEN "first"
  ELSE IF 10 * (wc + sectionWords) > 12 * targetWords THEN "exceed"
  ELSE "add"

innerDecision_NoLimit(nCurrent, wc, sectionWords, isTable) ==
  IF nCurrent = 0 THEN "first"
  ELSE IF isTable THEN "table"
  ELSE "add"

innerDecision_StopAtTarget(nCurrent, wc, sectionWords, isTable) ==
  IF nCurrent = 0 THEN "first"
  ELSE IF wc + sectionWords > targetWords THEN "exceed"
  ELSE IF isTable THEN "table"
  ELSE "add"

innerDecision(nCurrent, wc, sectionWords, isTable) ==
  IF nCurrent = 0 THEN "first"
  ELSE IF 10 * (wc + sectionWords) > 12 * targetWords THEN "exceed"
  ELSE IF isTable THEN "table"
  ELSE "add"

\* The backtracking while loop: counts whole sections backwards from read
\* position idx (zero-based) until about overlapWords words are covered or
\* all but the first of the nCurrent sections of the chunk are re-included.
backtrackLoop_OneStep(secs, idx, nCurrent, overlapCount, backtrackSteps) ==
  IF overlapCount < overlapWords /\ backtrackSteps < nCurrent - 1
  THEN backtrackSteps + 1
  ELSE backtrackSteps

RECURSIVE backtrackLoop(_, _, _, _, _)
backtrackLoop(secs, idx, nCurrent, overlapCount, backtrackSteps) ==
  IF overlapCount < overlapWords /\ backtrackSteps < nCurrent - 1
  THEN LET steps == backtrackSteps + 1
           k == idx - steps
           more == IF k >= 0 /\ k < Len(secs) /\ secs[k + 1] # <<>>
                   THEN countWords(secs[k + 1]) ELSE 0
       IN backtrackLoop(secs, idx, nCurrent, overlapCount + more, steps)
  ELSE backtrackSteps

\* The read position after the overlap step that follows a chunk: no rewind
\* after a table or at the end of the sections.
rewind_AlwaysOne(secs, idx, current) ==
  IF idx < Len(secs) THEN idx - 1 ELSE idx

rewind_NoOverlap(secs, idx, current) == idx

rewind_WholeChunk(secs, idx, current) ==
  LET lastWasTable == current # <<>> /\ startsWithPipe(current[Len(current)])
  IN IF ~lastWasTable /\ idx < Len(secs) THEN idx - Len(current) ELSE idx

rewind_SkipsSection(secs, idx, current) ==
  LET lastWasTable == current # <<>> /\ startsWithPipe(current[Len(current)])
  IN IF ~lastWasTable /\ idx < Len(secs)
     THEN idx - backtrackLoop(secs, idx, Len(current), 0, 0)
     ELSE IF idx < Len(secs) THEN idx + 1
     ELSE idx

rewind(secs, idx, current) ==
  LET lastWasTable == current # <<>> /\ startsWithPipe(current[Len(current)])
  IN IF ~lastWasTable /\ idx < Len(secs)
     THEN idx - backtrackLoop(secs, idx, Len(current), 0, 0)
     ELSE idx

\* buildChunk of lib/utils.ts: {...props, id: crypto.randomUUID(),
\* createdAt: new Date()}; uuid is what crypto.randomUUID() returned, now
\* what new Date() read.
buildChunk(props, uuid, now) ==
  [f \in (DOMAIN props) \cup {"id", "createdAt"} |->
     IF f = "id" THEN uuid
     ELSE IF f = "createdAt" THEN now
     ELSE props[f]]

\* -------------------------------------------------------- section classifier
\* Body markup is a sequence of elements, each a record [tag, title]:
\*   tag "ol", "/ol"   the tags <ol> and </ol>
\*   tag "li"          <li>...</li>; title "alpha": it begins with
\*                     <strong>Purpose.</strong>, title "numeric": it begins
\*                     with <strong>1.0 Purpose</strong>, title "none": it
\*                     does not begin with a <strong> run
\*   tag "h1"          <h1>...</h1>; title "numeric": <h1>1.0 Purpose</h1>,
\*                     title "alpha": <h1>Appendix</h1>
\*   tag "p"           <p>text</p>
\* A confidence is held in tenths: 9 is 0.9.  Two revisions of the
\* classifier are in the source; the operators of the later one end in 2.
OL == [tag |-> "ol", title |-> "none"]
OLEND == [tag |-> "/ol", title |-> "none"]
LI(title) == [tag |-> "li", title |-> title]
H1(title) == [tag |-> "h1", title |-> title]
P == [tag |-> "p", title |-> "none"]


emptyResult(strategy) ==
  [strategy |-> strategy, sections |-> <<>>, confidence |-> 0]

\* sections.push({sectionTitle, content, heading: {type, marker}}): the
\* title is the element at `at`, the content the elements from..to (for a
\* list item, the item itself after its <strong> run).
newSection(type, marker, at, from, to) ==
  [heading |-> [type |-> type, marker |-> marker],
   sectionTitle |-> at, content |-> [from |-> from, to |-> to]]

\* The confidence policy of the lettered strategy, first revision: s is
\* sections.length, strong / total the consistency ratio (a division by
\* zero gives Infinity, which passes every test).
letterConfidence_NoRatio(s, strong, total) ==
  IF s >= 5 THEN 9
  ELSE IF s >= 3 THEN 7
  ELSE IF s >= 2 THEN 5
  ELSE IF s >= 1 THEN 3
  ELSE 0

letterConfidence(s, strong, total) ==
  IF s >= 5 /\ 10 * strong > 8 * total THEN 9
  ELSE IF s >= 3 /\ 10 * strong > 7 * total THEN 7
  ELSE IF s >= 2 /\ 10 * strong > 6 * total THEN 5
  ELSE IF s >= 1 THEN 3
  ELSE 0

IsOl(e) == e.tag = "ol"
IsLi(e) == e.tag = "li"
IsStrongLi(e) == e.tag = "li" /\ e.title \in {"alpha", "numeric"}
IsAlphaLi(e) == e.tag = "li" /\ e.title = "alpha"
IsH1(e) == e.tag = "h1"
IsNumberedH1(e) == e.tag = "h1" /\ e.title = "numeric"

\* [...html.matchAll(regex)]: the positions of seq that a pattern matches,
\* in increasing order, one operator per pattern of the source.
\* /<ol>([\s\S]*?)<\/ol>/gi matches an <ol> together with the first </ol>
\* after it and goes on behind that </ol>: firstTag is the first position
\* >= p of seq with the tag (0 if none), matchOlFrom the positions of the
\* <ol> of the matches from p on.
firstTag(seq, p, tag) ==
  LET found == {x \in p..Len(seq) : seq[x].tag = tag}
  IN IF found = {} THEN 0 ELSE CHOOSE x \in found : \A y \in found : x <= y

RECURSIVE matchOlFrom(_, _)
matchOlFrom(seq, p) ==
  LET a == firstTag(seq, p, "ol")
      b == IF a = 0 THEN 0 ELSE firstTag(seq, a + 1, "/ol")
  IN IF a = 0 \/ b = 0 THEN <<>>
     ELSE <<a>> \o matchOlFrom(seq, b + 1)

matchOl(seq) == matchOlFrom(seq, 1)
matchStrongLi(seq) ==
  SelectSeq([x \in 1..Len(seq) |-> x], LAMBDA x : IsStrongLi(seq[x]))
matchLi(seq) ==
  SelectSeq([x \in 1..Len(seq) |-> x], LAMBDA x : IsLi(seq[x]))
matchAlphaLi(seq) ==
  SelectSeq([x \in 1..Len(seq) |-> x], LAMBDA x : IsAlphaLi(seq[x]))
matchNumberedH1(seq) ==
  SelectSeq([x \in 1..Len(seq) |-> x], LAMBDA x : IsNumberedH1(seq[x]))
matchH1(seq) ==
  SelectSeq([x \in 1..Len(seq) |-> x], LAMBDA x : IsH1(seq[x]))

\* _applyLetterStrategy, first revision: the <li><strong> items of the
\* first <ol>...</ol>.
applyLetterStrategy(html) ==
  LET opens == matchOl(html)
      a == IF opens = <<>> THEN 0 ELSE opens[1]
      closes == {x \in (a + 1)..Len(html) : html[x].tag = "/ol"}
      b == IF closes = {} THEN 0 ELSE CHOOSE x \in closes : \A y \in closes : x <= y
      mainList == SubSeq(html, a + 1, b - 1)
      liMatches == matchStrongLi(mainList)
      hasNumberedTitles ==
        \E x \in 1..Len(liMatches) : mainList[liMatches[x]].title = "numeric"
      sections ==
        [x \in 1..Len(liMatches) |->
           newSection("lettered", 65 + (x - 1), a + liMatches[x],
                   a + liMatches[x], a + liMatches[x])]
      totalLiItems == Len(matchLi(mainList))
  IN IF a = 0 \/ b = 0 \/ mainList = <<>> THEN emptyResult("lettered")
     ELSE IF liMatches = <<>> THEN emptyResult("lettered")
     ELSE IF hasNumberedTitles THEN emptyResult("lettered")
     ELSE [strategy |-> "lettered", sections |-> sections,
           confidence |-> letterConfidence(Len(sections), Len(liMatches),
                                           totalLiItems)]

\* The confidence policy of the lettered strategy, second revision.
letterConfidence2(s) ==
  IF s >= 5 THEN 9
  ELSE IF s >= 3 THEN 7
  ELSE IF s >= 2 THEN 5
  ELSE IF s >= 1 THEN 3
  ELSE 0

\* _applyLetterStrategy, second revision: every <li><strong> item of the
\* document whose title holds letters only; its content runs to the next
\* such item or to the end of the markup.  The titles tested for a numeric
\* start are those the pattern matched, which hold letters only.
applyLetterStrategy2(html) ==
  LET matches == matchAlphaLi(html)
      hasNumberedTitles ==
        \E x \in 1..Len(matches) : html[matches[x]].title = "numeric"
      sections ==
        [x \in 1..Len(matches) |->
           newSection("lettered", 65 + (x - 1), matches[x], matches[x],
                   IF x < Len(matches) THEN matches[x + 1] - 1 ELSE Len(html))]
  IN IF matches = <<>> THEN emptyResult("lettered")
     ELSE IF hasNumberedTitles THEN emptyResult("lettered")
     ELSE [strategy |-> "lettered", sections |-> sections,
           confidence |-> letterConfidence2(Len(sections))]

\* The confidence policy of the numbered strategy (both revisions).
numberConfidence(s) ==
  IF s >= 5 THEN 9
  ELSE IF s >= 3 THEN 7
  ELSE IF s >= 1 THEN 4
  ELSE 0

\* _applyNumberStrategy, first revision: the content of the k-th numbered
\* heading is parts[k], the k-th piece of html.split(<any h1>) after the
\* first.
applyNumberStrategy(html) ==
  LET matches == matchNumberedH1(html)
      cuts == matchH1(html)
      partFrom(x) == cuts[x] + 1
      partTo(x) == IF x < Len(cuts) THEN cuts[x + 1] - 1 ELSE Len(html)
      sections ==
        [x \in 1..Len(matches) |->
           newSection("numbered", matches[x], matches[x], partFrom(x), partTo(x))]
  IN IF matches = <<>> THEN emptyResult("numbered")
     ELSE [strategy |-> "numbered", sections |-> sections,
           confidence |-> numberConfidence(Len(sections))]

\* _applyNumberStrategy, second revision: the content runs from the end of
\* the heading to the start of the next numbered heading or the end.
applyNumberStrategy2(html) ==
  LET matches == matchNumberedH1(html)
      sections ==
        [x \in 1..Len(matches) |->
           newSection("numbered", matches[x], matches[x], matches[x] + 1,
                   IF x < Len(matches) THEN matches[x + 1] - 1 ELSE Len(html))]
  IN IF matches = <<>> THEN emptyResult("numbered")
     ELSE [strategy |-> "numbered", sections |-> sections,
           confidence |-> numberConfidence(Len(sections))]

\* Array.prototype.sort with the comparator (a, b) => b.confidence -
\* a.confidence: a stable sort, here by insertion; x goes before the first
\* element the comparator puts strictly after it.
RECURSIVE insertByConfidence(_, _)
insertByConfidence(sorted, x) ==
  IF sorted = <<>> THEN <<x>>
  ELSE IF x.confidence - Head(sorted).confidence > 0
       THEN <<x>> \o sorted
       ELSE <<Head(sorted)>> \o insertByConfidence(Tail(sorted), x)

RECURSIVE sortByConfidence(_)
sortByConfidence(results) ==
  IF results = <<>> THEN <<>>
  ELSE insertByConfidence(sortByConfidence(SubSeq(results, 1, Len(results) - 1)),
                          results[Len(results)])

\* _identifySections after the two strategies ran: the first element of the
\* sorted results, or the fallback literal when there is none.
identifySections_LastWins(letter, number) ==
  IF number.confidence >= letter.confidence THEN number ELSE letter

identifySections(letter, number) ==
  LET results == sortByConfidence(<<letter, number>>)
  IN IF results = <<>> THEN emptyResult("fallback") ELSE results[1]

\* ------------------------------------------------------- header metadata
\* The text of a header cell is a sequence of tokens: LABEL(l) is one of the
\* labels "Procedure Title:" (1), "Number:" (2), "Effective:" (3) and
\* "Revision:" (4) in any letter case, W(1) a value, SP a space.
LABEL(l) == [k |-> "label", n |-> l]

\* A table cell of the parsed header: its "w:p" paragraph may be missing;
\* the paragraph holds text runs ("w:r", each with the text of its "w:t" or
\* <<>> when it has none) and, in fld, the text of a "w:fldSimple" field.
cell(runs, fld) == [hasP |-> TRUE, runs |-> runs, fld |-> fld]
cellWithoutParagraph == [hasP |-> FALSE, runs |-> <<>>, fld |-> <<>>]

\* The value of a step that may throw.
returned(value) == [threw |-> FALSE, error |-> "", value |-> value]
thrown(error) == [threw |-> TRUE, error |-> error, value |-> <<>>]

\* text += String(textContent), over the runs in order.
RECURSIVE concatRuns(_)
concatRuns(runs) ==
  IF runs = <<>> THEN <<>> ELSE Head(runs) \o concatRuns(Tail(runs))

\* text.replace(/^(Procedure Title:|Number:|Effective:|Revision:)\s*/i, ""):
\* one label at the very start of the text goes, with the space after it.
stripLabel(text) ==
  IF text # <<>> /\ Head(text).k = "label" THEN TrimStart(Tail(text))
  ELSE text

\* _extractTextFromCell; c is <<>> for an undefined cell, <<cell>> otherwise.
\* Reading "w:p" of undefined, or "w:r" of an undefined paragraph, throws a
\* TypeError.
extractTextFromCell(c) ==
  IF c = <<>> THEN thrown("TypeError")
  ELSE IF ~c[1].hasP THEN thrown("TypeError")
  ELSE returned(Trim(stripLabel(concatRuns(c[1].runs) \o c[1].fld)))

\* row[idx] of a JavaScript array (idx zero-based): <<>> when undefined.
at(row, idx) == IF idx + 1 <= Len(row) THEN <<row[idx + 1]>> ELSE <<>>

\* _parseHeaderTable: rows is table["w:tr"], each row its "w:tc" cells.
parseHeaderTable(rows) ==
  IF at(rows, 0) = <<>> THEN thrown("TypeError")
  ELSE LET procedureTitle == extractTextFromCell(at(rows[1], 1))
       IN IF procedureTitle.threw THEN procedureTitle
          ELSE IF at(rows, 1) = <<>> THEN thrown("TypeError")
          ELSE LET row2 == rows[2]
                   documentNumber == extractTextFromCell(at(row2, 1))
                   effectiveDate == extractTextFromCell(at(row2, 2))
                   revisionText == extractTextFromCell(at(row2, 3))
               IN IF documentNumber.threw THEN documentNumber
                  ELSE IF effectiveDate.threw THEN effectiveDate
                  ELSE IF revisionText.threw THEN revisionText
                  ELSE returned([documentTitle |-> procedureTitle.value,
                                 documentNumber |-> documentNumber.value,
                                 effectiveDate |-> effectiveDate.value,
                                 revision |-> revisionText.value])

\* _extractHeaderMetadata: f.hasHeader says whether the archive holds
\* word/header1.xml, f.header is its table.
extractHeaderMetadata_NoHeaderCheck(f) ==
  IF ~f.hasHeader
  THEN returned([documentTitle |-> <<>>, documentNumber |-> <<>>,
                 effectiveDate |-> <<>>, revision |-> <<>>])
  ELSE parseHeaderTable(f.header)

extractHeaderMetadata(f) ==
  IF ~f.hasHeader THEN thrown("Header file not found in document")
  ELSE parseHeaderTable(f.header)

\* ------------------------------------------------------------------ strings
\* The lower-case letter of a capital letter; any other character is itself.
lowerChar(c) ==
  CASE c = "A" -> "a" [] c = "B" -> "b" [] c = "C" -> "c" [] c = "D" -> "d"
    [] c = "E" -> "e" [] c = "F" -> "f" [] c = "G" -> "g" [] c = "H" -> "h"
    [] c = "I" -> "i" [] c = "J" -> "j" [] c = "K" -> "k" [] c = "L" -> "l"
    [] c = "M" -> "m" [] c = "N" -> "n" [] c = "O" -> "o" [] c = "P" -> "p"
    [] c = "Q" -> "q" [] c = "R" -> "r" [] c = "S" -> "s" [] c = "T" -> "t"
    [] c = "U" -> "u" [] c = "V" -> "v" [] c = "W" -> "w" [] c = "X" -> "x"
    [] c = "Y" -> "y" [] c = "Z" -> "z" [] OTHER -> c

\* String.prototype.toLowerCase, character by character.
RECURSIVE toLowerCase(_)
toLowerCase(str) ==
  IF Len(str) = 0 THEN ""
  ELSE lowerChar(SubSeq(str, 1, 1)) \o toLowerCase(SubSeq(str, 2, Len(str)))

\* The type of new File(bits, name, {type}): the File constructor of the
\* runtime lower-cases the type it is given (a string of printable ASCII
\* characters, as all types here are).
fileType(type) == toLowerCase(type)

\* ------------------------------------------------------------ chunker factory
PdfType == "application/pdf"
DocxType == "application/vnd.openxmlformats-officedocument.wordprocessingml.document"
DocmType == "application/vnd.ms-word.document.macroEnabled.12"

\* The switch on file.type of createChunkerModule.  Two revisions are in
\* the source: create-chunker-module.ts (1) and createChunkerModule.ts (2),
\* which also has a case label for the macro-enabled Word type, written
\* with capitals.
dispatch(type, rev) ==
  IF type = PdfType THEN "pdf"
  ELSE IF type = DocxType THEN "word"
  ELSE IF rev = 2 /\ type = DocmType THEN "word"
  ELSE "unsupported"

\* ------------------------------------------------------------- file events
\* The paths of the watched directory: base name and extension.
Paths == { [base |-> "a", ext |-> ".pDf"], [base |-> "notes", ext |-> ".txt"] }

\* The extensions getMimeType knows, with their MIME types.
mimeTypes ==
  [ext \in {".pdf", ".doc", ".docx", ".txt", ".json", ".jpg", ".jpeg", ".png",
            ".gif", ".mp4", ".mp3", ".zip"} |->
     CASE ext = ".pdf" -> PdfType
       [] ext = ".doc" -> "application/msword"
       [] ext = ".docx" -> DocxType
       [] ext = ".txt" -> "text/plain"
       [] ext = ".json" -> "application/json"
       [] ext = ".jpg" -> "image/jpeg"
       [] ext = ".jpeg" -> "image/jpeg"
       [] ext = ".png" -> "image/png"
       [] ext = ".gif" -> "image/gif"
       [] ext = ".mp4" -> "video/mp4"
       [] ext = ".mp3" -> "audio/mpeg"
       [] ext = ".zip" -> "application/zip"]

\* getMimeType of lib/utils.ts.
getMimeType(path) ==
  LET ext == toLowerCase(path.ext)
  IN IF ext \in DOMAIN mimeTypes THEN mimeTypes[ext]
     ELSE "application/octet-stream"

\* getFileFromPath of lib/utils.ts, for a path that exists: the type of the
\* File it builds.
getFileFromPath(path) == fileType(getMimeType(path))

\* The type of the file at each watched path.
typeOfPath == [path \in Paths |-> getFileFromPath(path)]

\* The events the callback of main queues a handler for.
Events == {"add", "change", "unlink"}

\* The handler call of an event just delivered: queue.then(() => handler)
\* has registered it, it was not called.  pc is "queued", "lookup" (awaits
\* db.checkIfFileHasBeenChunked), "create" (awaits the create of the
\* chunker), "chunk" (awaits chunkDocument), "embed" (awaits the
\* embeddings), "insertFile" (awaits db.insertChunkedFile), "insertChunks"
\* (awaits db.insertChunks), "fulfilled" or "rejected" (the promise of the
\* queue for this event is settled); n is chunks.length, recorded says that
\* chunked_files held the path when the handler was called, chunked that
\* chunkDocument was called.
queuedHandler ==
  [pc |-> "queued", started |-> FALSE, n |-> 0, fileId |-> 0,
   recorded |-> FALSE, chunked |-> FALSE, how |-> "pending"]

\* The state of the promise that queue holds after event k was delivered;
\* before the first event it is Promise.resolve().
linkState(hs, k) ==
  IF k = 0 THEN "fulfilled"
  ELSE IF hs[k].pc \in {"fulfilled", "rejected"} THEN hs[k].pc
  ELSE "pending"

\* When the handler of event k is called.  queue = queue.then(() =>
\* handler(...)): when the promise before it is fulfilled.  (The revision
\* of main without a queue calls it within the callback of the watcher.)
mayStart_Unqueued(hs, k) == hs[k].pc = "queued"

mayStart(hs, k) ==
  /\ hs[k].pc = "queued"
  /\ linkState(hs, k - 1) = "fulfilled"

\* then() without a rejection callback: the promise of event k is rejected,
\* its handler not called, when the promise before it is rejected.
isSkipped(hs, k) ==
  /\ hs[k].pc = "queued"
  /\ linkState(hs, k - 1) = "rejected"

\* The handler call of event k settled: how says in which way.
settle(hs, k, to, how) ==
  [hs EXCEPT ![k].pc = to, ![k].how = how]

\* ----------------------------------------------------------------- database
\* A chunk is <<chunkIndex>>, an embedding <<the index of the chunk it was
\* made for>>; <<>> is a missing element of the array.
\* The paths of the rows of chunked_files.
recordedPaths(files) == { files[x].path : x \in 1..Len(files) }

\* ollama.createEmbedding(text): the function has an empty body and returns
\* undefined, written <<>> as a missing element of the embeddings array.
createEmbedding(chunkText) == <<>>

\* No call of insertChunks runs.
idleInsert ==
  [pc |-> "idle", chunks |-> <<>>, embeddings |-> <<>>, fileId |-> 0,
   idx |-> 0, failed |-> FALSE, acquired |-> 0, released |-> 0,
   before |-> {}, owner |-> 0]

\* insertChunks(chunks, fileId, embeddings) is called by handler owner
\* while table chunks holds the rows stored.
callInsert(chunkList, fileId, embeddings, stored, owner) ==
  [pc |-> "connect", chunks |-> chunkList, embeddings |-> embeddings,
   fileId |-> fileId, idx |-> 0, failed |-> FALSE, acquired |-> 0,
   released |-> 0, before |-> stored, owner |-> owner]

\* The row of INSERT INTO chunks for a chunk and its embedding.
chunkRow(chunk, fileId, embedding) ==
  [file_id |-> fileId, chunk_index |-> chunk[1], embedding |-> embedding[1]]

\* client.query(INSERT ...) after BEGIN: the row belongs to the open
\* transaction until COMMIT.
queryInsert_AutoCommit(stored, tx, row) ==
  [stored |-> stored \cup {row}, tx |-> tx]

queryInsert(stored, tx, row) ==
  [stored |-> stored, tx |-> tx \cup {row}]

\* ------------------------------------------------------------------- state
VARIABLES
  variant,           \* "word" (WordChunker) or "pdf" (PDFChunker)
  parsedText,        \* the decoded body text handed over by the converter
  documentMetadata,  \* _documentMetadata: <<>> (null) or <<record>>
  pc,                \* position in chunkDocument / _chunkByParagraphsAndTables
  outcome,           \* "running", "returned" or "threw"
  text,              \* the argument of _chunkByParagraphsAndTables
  sections,          \* const sections
  i,                 \* let i (zero-based read cursor)
  chunkIndex,        \* let chunkIndex
  currentSections,   \* const currentSections of the running outer iteration
  wordCount,         \* let wordCount
  chunks,            \* const chunks
  chunkStart,        \* history: value of i when the running chunk was begun
  spans,             \* history: per chunk, its first and last section index
  documentHtml,      \* the markup handed to _identifySections
  revision,          \* which revision of the classifier runs: 1 or 2
  cpc,               \* position in _identifySections: "idle", "start", "done"
  letterResult,      \* const letterResult
  numberResult,      \* const numberResult
  bestResult,        \* const bestResult, the value returned
  file,              \* the File handed to createChunkerModule
  alreadyChunked,    \* what db.checkIfFileHasBeenChunked(path) answers
  factoryRevision,   \* which revision of createChunkerModule runs: 1 or 2
  fpc,               \* position in createChunkerModule and the create it awaits
  created,           \* "none", "null", "pdf" (a PDFChunker), "word"
  error,             \* <<>> or the error the call was rejected with
  headerMetadata,    \* _documentMetadata of the created WordChunker
  cleanser,          \* which cleanser runs alone: "word" or "pdf"
  rawText,           \* the text handed to it
  cleanPc,           \* "idle", "start", "once" (it ran), "twice" (ran again)
  onceText,          \* its output
  twiceText,         \* its output when run on onceText
  built,             \* the chunks that calls of buildChunk returned, in order
  run,               \* which call of _chunkByParagraphsAndTables runs: 1, 2
  firstChunks,       \* what the first invocation returned
  present,           \* the paths of the files in the watched directory
  delivered,         \* the events the watcher has delivered, in order
  handlers,          \* per delivered event, the state of its handler call
  starts,            \* history: the events whose handler started, in order
  chunkedFiles,      \* the rows of table chunked_files, in insertion order
  chunkRows,         \* the committed rows of table chunks
  txRows,            \* the rows inserted by the open transaction
  ins                \* the running call of insertChunks

chunkVars ==
  <<variant, parsedText, documentMetadata, pc, outcome, text, sections, i,
    chunkIndex, currentSections, wordCount, chunks, chunkStart, spans>>

classVars ==
  <<documentHtml, revision, cpc, letterResult, numberResult, bestResult>>

factoryVars ==
  <<file, alreadyChunked, factoryRevision, fpc, created, error, headerMetadata>>

cleanseVars == <<cleanser, rawText, cleanPc, onceText, twiceText>>

buildVars == <<built>>

rerunVars == <<run, firstChunks>>

watchVars ==
  <<present, delivered, handlers, starts, chunkedFiles, chunkRows, txRows,
    ins>>

notWatchVars ==
  <<chunkVars, classVars, factoryVars, cleanseVars, buildVars, rerunVars>>

vars ==
  <<chunkVars, classVars, factoryVars, cleanseVars, buildVars,
    rerunVars, watchVars>>

\* ------------------------------------------------------------------ inputs
\* Paragraphs and table blocks a document body is made of.
SectionKinds ==
  { <<W(10)>>, <<W(10), NL, W(50)>>, <<W(200)>>, <<W(280)>>, <<W(500)>>,
    <<T(15)>> }

\* The blocks used in the layouts that surround them with other material.
FewSectionKinds == { <<W(10)>>, <<W(280)>>, <<T(15)>> }

\* How the blocks are laid out: what precedes them, separates them and
\* follows them, for which chunker, and with which header metadata of the
\* Word chunker; the PDF chunker has the metadata that PDFChunker.create
\* extracted from the text.
Layouts ==
  { [variant |-> "word", lead |-> <<>>, sep |-> <<PB>>, trail |-> <<>>,
     md |-> <<SomeMetadata>>, kinds |-> SectionKinds],
    [variant |-> "pdf", lead |-> <<>>, sep |-> <<PB>>, trail |-> <<>>,
     md |-> <<>>, kinds |-> FewSectionKinds],
    [variant |-> "word", lead |-> <<PB, SP>>, sep |-> <<PB, NL>>,
     trail |-> <<SP, PB>>, md |-> <<>>, kinds |-> FewSectionKinds],
    [variant |-> "word", lead |-> <<>>, sep |-> <<PB>>, trail |-> <<>>,
     md |-> <<NumberlessMetadata>>, kinds |-> FewSectionKinds],
    [variant |-> "word", lead |-> SIG \o <<PB>>, sep |-> <<PB>>,
     trail |-> <<PB>> \o IMG, md |-> <<SomeMetadata>>, kinds |-> FewSectionKinds],
    [variant |-> "pdf", lead |-> <<TITLE, NL, NUMLINE, NL>>,
     sep |-> <<PB>> \o PM \o <<PB>>, trail |-> <<NL>> \o PM, md |-> <<>>,
     kinds |-> FewSectionKinds] }

RECURSIVE joinWith(_, _)
joinWith(secs, sep) ==
  IF secs = <<>> THEN <<>>
  ELSE IF Len(secs) = 1 THEN secs[1]
  ELSE secs[1] \o sep \o joinWith(Tail(secs), sep)

\* The decoded body of a document: blocks b laid out as d says.
body(d, b) == d.lead \o joinWith(b, d.sep) \o d.trail

\* No classification is requested.
ClassifierIdle ==
  /\ documentHtml = <<>>
  /\ revision = 1
  /\ cpc = "idle"
  /\ letterResult = emptyResult("none")
  /\ numberResult = emptyResult("none")
  /\ bestResult = emptyResult("none")

\* PDFParse.getText rejects: the bytes are no PDF document.
noParse == [ok |-> FALSE, text |-> <<>>]

\* No chunker is being created.
FactoryIdle ==
  /\ file = [type |-> fileType(PdfType), size |-> 1, hasHeader |-> FALSE,
             header |-> <<>>,
             parse |-> noParse]
  /\ alreadyChunked = FALSE
  /\ factoryRevision = 1
  /\ fpc = "idle"
  /\ created = "none"
  /\ error = <<>>
  /\ headerMetadata = <<>>

\* No cleanser runs alone, and buildChunk was not called.
CleanserIdle ==
  /\ cleanser = "word"
  /\ rawText = <<>>
  /\ cleanPc = "idle"
  /\ onceText = <<>>
  /\ twiceText = <<>>
  /\ built = <<>>

\* _chunkByParagraphsAndTables was called once at most.
RerunIdle ==
  /\ run = 1
  /\ firstChunks = <<>>

\* The watcher has delivered nothing and the tables are empty.
WatcherIdle ==
  /\ present = {}
  /\ delivered = <<>>
  /\ handlers = <<>>
  /\ starts = <<>>
  /\ chunkedFiles = <<>>
  /\ chunkRows = {}
  /\ txRows = {}
  /\ ins = idleInsert

\* A chunker holding a document of at most maxBlocks blocks, before the
\* call of chunkDocument.
chunkerWith(maxBlocks) ==
  /\ \E d \in Layouts, n \in 0..maxBlocks :
       \E b \in [1..n -> d.kinds] :
         /\ variant = d.variant
         /\ parsedText = body(d, b)
         /\ documentMetadata =
              IF d.variant = "pdf" THEN <<extractDocumentMetadata(body(d, b))>>
              ELSE d.md
  /\ pc = "start"
  /\ outcome = "running"
  /\ text = <<>>
  /\ sections = <<>>
  /\ i = 0
  /\ chunkIndex = 0
  /\ currentSections = <<>>
  /\ wordCount = 0
  /\ chunks = <<>>
  /\ chunkStart = 0
  /\ spans = <<>>
  /\ ClassifierIdle
  /\ FactoryIdle
  /\ CleanserIdle
  /\ RerunIdle
  /\ WatcherIdle

InitChunk == chunkerWith(MaxSections)

\* ----------------------------------------------------------------- actions
\* chunkDocument up to the call of _chunkByParagraphsAndTables and its first
\* lines.  The PDF chunker throws when the parsed text is empty.
ChunkDocument ==
  /\ pc = "start"
  /\ IF variant = "pdf" /\ parsedText = <<>>
     THEN /\ outcome' = "threw"
          /\ pc' = "done"
          /\ UNCHANGED <<text, sections>>
     ELSE /\ text' = IF variant = "pdf" THEN cleanseText(parsedText)
                     ELSE cleanseWord(parsedText)
          /\ sections' = splitSections(text')
          /\ pc' = "outer"
          /\ UNCHANGED outcome
  /\ UNCHANGED <<variant, parsedText, documentMetadata, i, chunkIndex,
                 currentSections, wordCount, chunks, chunkStart, spans>>
  /\ UNCHANGED <<classVars, factoryVars, cleanseVars, buildVars, rerunVars, watchVars>>

\* while (i < sections.length) { const currentSections = []; let wordCount = 0;
OuterLoop ==
  /\ pc = "outer"
  /\ i < Len(sections)
  /\ currentSections' = <<>>
  /\ wordCount' = 0
  /\ chunkStart' = i
  /\ pc' = "inner"
  /\ UNCHANGED <<variant, parsedText, documentMetadata, outcome, text, sections,
                 i, chunkIndex, chunks, spans>>
  /\ UNCHANGED <<classVars, factoryVars, cleanseVars, buildVars, rerunVars, watchVars>>

\* One test of the inner while condition and, when it holds, one iteration.
InnerLoop ==
  /\ pc = "inner"
  /\ IF i < Len(sections) /\ wordCount < targetWords
     THEN LET section == sections[i + 1]
              sectionWords == countWords(section)
              isTable == startsWithPipe(section)
              d == innerDecision(Len(currentSections), wordCount, sectionWords,
                                 isTable)
          IN IF section = <<>>
             THEN /\ i' = i + 1
                  /\ UNCHANGED <<currentSections, wordCount, pc>>
             ELSE IF d \in {"first", "add"}
             THEN /\ currentSections' = Append(currentSections, section)
                  /\ wordCount' = wordCount + sectionWords
                  /\ i' = i + 1
                  /\ pc' = IF d = "first" /\ isTable THEN "emit" ELSE "inner"
             ELSE /\ pc' = "emit"
                  /\ UNCHANGED <<currentSections, wordCount, i>>
     ELSE /\ pc' = "emit"
          /\ UNCHANGED <<currentSections, wordCount, i>>
  /\ UNCHANGED <<variant, parsedText, documentMetadata, outcome, text, sections,
                 chunkIndex, chunks, chunkStart, spans>>
  /\ UNCHANGED <<classVars, factoryVars, cleanseVars, buildVars, rerunVars, watchVars>>

\* The times new Date() has read so far: the createdAt of every chunk made.
timesRead ==
  { chunks[x].createdAt : x \in 1..Len(chunks) }
  \cup { firstChunks[x].createdAt : x \in 1..Len(firstChunks) }
  \cup { built[x].createdAt : x \in 1..Len(built) }

\* The last time the clock read.
lastRead == CHOOSE t \in timesRead : \A u \in timesRead : u <= t

\* What new Date() can read now.  Time is counted from the first reading,
\* which is 1; a later reading is the time read last, or a later one.
clockReadings ==
  IF timesRead = {} THEN {1}
  ELSE {t \in {lastRead, lastRead + 1} : t <= MaxClock}

\* chunks.push(this._createChunk(chunkContent, chunkIndex++)) and the overlap
\* step that moves the read cursor back.  _createChunk reads the clock.
EmitChunk ==
  /\ pc = "emit"
  /\ \E now \in clockReadings :
       chunks' = Append(chunks,
                        createChunk(documentMetadata, join(currentSections),
                                    chunkIndex, now))
  /\ chunkIndex' = chunkIndex + 1
  /\ spans' = Append(spans, [first |-> chunkStart, last |-> i - 1])
  /\ i' = rewind(sections, i, currentSections)
  /\ pc' = "outer"
  /\ UNCHANGED <<variant, parsedText, documentMetadata, outcome, text, sections,
                 currentSections, wordCount, chunkStart>>
  /\ UNCHANGED <<classVars, factoryVars, cleanseVars, buildVars, rerunVars, watchVars>>

\* The outer while condition fails: return chunks.
Return ==
  /\ pc = "outer"
  /\ i >= Len(sections)
  /\ outcome' = "returned"
  /\ pc' = "done"
  /\ UNCHANGED <<variant, parsedText, documentMetadata, text, sections, i,
                 chunkIndex, currentSections, wordCount, chunks, chunkStart,
                 spans>>
  /\ UNCHANGED <<classVars, factoryVars, cleanseVars, buildVars, rerunVars, watchVars>>

NextChunk == ChunkDocument \/ OuterLoop \/ InnerLoop \/ EmitChunk \/ Return

\* One call of chunkDocument on an arbitrary document.
SpecChunk == InitChunk /\ [][NextChunk]_vars

\* ------------------------------------------------------------- chunk ids
\* The values crypto.randomUUID() can return.
UUIDs == {"uuid-1", "uuid-2", "uuid-3"}

\* The properties handed to buildChunk.
ChunkProps ==
  { [text |-> <<W(10)>>, documentTitle |-> "Employee Handbook",
     documentNumber |-> "HR-001", revision |-> "2.0",
     effectiveDate |-> "2024-01-01", chunkIndex |-> 0] }

\* The ids crypto.randomUUID() has returned so far.
issued == { built[x].id : x \in 1..Len(built) }


\* One call of buildChunk.  crypto.randomUUID() returns a version 4 UUID,
\* taken here to be one it has not returned before; the clock reads what it
\* read at the call before or a later time.  buildChunk shares no state
\* with the chunker, so its calls are taken after chunkDocument ended; two
\* calls are followed.
BuildChunk ==
  /\ pc = "done"
  /\ Len(built) < 2
  /\ \E props \in ChunkProps, uuid \in UUIDs \ issued,
        now \in clockReadings :
       built' = Append(built, buildChunk(props, uuid, now))
  /\ UNCHANGED <<chunkVars, classVars, factoryVars, cleanseVars, rerunVars, watchVars>>

NextIds == NextChunk \/ BuildChunk

\* One call of chunkDocument, and calls of buildChunk.
SpecIds == InitChunk /\ [][NextIds]_vars

\* ------------------------------------------------------------ second call
\* _chunkByParagraphsAndTables is called again on the same chunker with the
\* text of the first call: lines 141 to 147 set its locals anew, the header
\* metadata of the chunker stays.
ChunkAgain ==
  /\ pc = "done"
  /\ outcome = "returned"
  /\ run = 1
  /\ run' = 2
  /\ firstChunks' = chunks
  /\ sections' = splitSections(text)
  /\ chunks' = <<>>
  /\ spans' = <<>>
  /\ i' = 0
  /\ chunkIndex' = 0
  /\ outcome' = "running"
  /\ pc' = "outer"
  /\ UNCHANGED <<variant, parsedText, documentMetadata, text, currentSections,
                 wordCount, chunkStart>>
  /\ UNCHANGED <<classVars, factoryVars, cleanseVars, buildVars, watchVars>>

NextTwice == NextChunk \/ ChunkAgain

InitTwice == chunkerWith(MaxRerunSections)

\* Two calls of the chunker on one document.
SpecTwice == InitTwice /\ [][NextTwice]_vars

\* ------------------------------------------------------ classifier inputs
RECURSIVE repeat(_, _)
repeat(seq, count) == IF count = 0 THEN <<>> ELSE seq \o repeat(seq, count - 1)

\* A document body: a list of na titled, np plain and nn numerically titled
\* items (after <ol> when wrap is not "none", before </ol> when it is
\* "closed"), then nh numbered headings, each
\* with a paragraph, an unnumbered heading after the first of them when
\* plainHeading, and a second short list when second.
markup(na, np, nn, wrap, nh, plainHeading, second) ==
  (IF wrap # "none" THEN <<OL>> ELSE <<>>)
  \o repeat(<<LI("alpha")>>, na) \o repeat(<<LI("none")>>, np)
  \o repeat(<<LI("numeric")>>, nn)
  \o (IF wrap = "closed" THEN <<OLEND>> ELSE <<>>)
  \o <<P>>
  \o (IF nh > 0 THEN <<H1("numeric"), P>> ELSE <<>>)
  \o (IF plainHeading THEN <<H1("alpha"), P>> ELSE <<>>)
  \o (IF nh > 0 THEN repeat(<<H1("numeric"), P>>, nh - 1) ELSE <<>>)
  \o (IF second THEN <<OL, LI("alpha"), LI("none"), OLEND>> ELSE <<>>)

\* The chunker is not running.
ChunkerIdle ==
  /\ variant = "word"
  /\ parsedText = <<>>
  /\ documentMetadata = <<>>
  /\ pc = "done"
  /\ outcome = "returned"
  /\ text = <<>>
  /\ sections = <<>>
  /\ i = 0
  /\ chunkIndex = 0
  /\ currentSections = <<>>
  /\ wordCount = 0
  /\ chunks = <<>>
  /\ chunkStart = 0
  /\ spans = <<>>

InitClassify ==
  /\ ChunkerIdle
  /\ FactoryIdle
  /\ CleanserIdle
  /\ RerunIdle
  /\ WatcherIdle
  /\ \E na \in 0..MaxAlphaItems, np \in 0..MaxPlainItems, nn \in 0..1,
        nh \in 0..MaxHeadings, wrap \in {"none", "closed", "open"}, plainHeading \in BOOLEAN,
        second \in BOOLEAN :
       documentHtml = markup(na, np, nn, wrap, nh, plainHeading, second)
  /\ revision \in {1, 2}
  /\ cpc = "start"
  /\ letterResult = emptyResult("none")
  /\ numberResult = emptyResult("none")
  /\ bestResult = emptyResult("none")

\* _identifySections: run both strategies, return the best result.
IdentifySections ==
  /\ cpc = "start"
  /\ letterResult' = IF revision = 1 THEN applyLetterStrategy(documentHtml)
                     ELSE applyLetterStrategy2(documentHtml)
  /\ numberResult' = IF revision = 1 THEN applyNumberStrategy(documentHtml)
                     ELSE applyNumberStrategy2(documentHtml)
  /\ bestResult' = identifySections(letterResult', numberResult')
  /\ cpc' = "done"
  /\ UNCHANGED <<documentHtml, revision>>
  /\ UNCHANGED <<chunkVars, factoryVars, cleanseVars, buildVars, rerunVars, watchVars>>

NextClassify == IdentifySections

\* One call of _identifySections on an arbitrary document body.
SpecClassify == InitClassify /\ [][NextClassify]_vars

\* ---------------------------------------------------------- factory inputs
\* Paragraphs a header cell may hold: "Number: X", "X", " Number: X",
\* "Number: " and "Revision: X" in two runs, no run at all, and a label
\* and value that come from a field.
CellParagraphs ==
  { cell(<< <<LABEL(2), SP, W(1)>> >>, <<>>),
    cell(<< <<W(1)>> >>, <<>>),
    cell(<< <<SP, LABEL(2), SP, W(1)>> >>, <<>>),
    cell(<< <<LABEL(2), SP>>, <<LABEL(4), SP, W(1)>> >>, <<>>),
    cell(<<>>, <<>>),
    cell(<< <<>> >>, <<LABEL(3), W(1), SP>>) }

\* The first cell of either row (a logo, a caption).
fillerCell == cell(<< <<W(1)>> >>, <<>>)

\* Header tables with both rows and all four cells in place.
FullHeaders ==
  { << <<fillerCell, c[1]>>, <<fillerCell, c[2], c[3], c[4]>> >> :
      c \in [1..4 -> CellParagraphs] }

\* Header tables that lack a row, a cell or a cell's paragraph.
MalformedHeaders ==
  LET good == cell(<< <<LABEL(2), SP, W(1)>> >>, <<>>)
      row1 == <<fillerCell, good>>
      row2 == <<fillerCell, good, good, good>>
  IN { <<>>, <<row1>>, << <<fillerCell>>, row2 >>,
       <<row1, <<fillerCell>> >>, <<row1, <<fillerCell, good>> >>,
       <<row1, <<fillerCell, good, good>> >>,
       << <<fillerCell, cellWithoutParagraph>>, row2 >>,
       <<row1, <<fillerCell, good, cellWithoutParagraph, good>> >>,
       <<row1, <<fillerCell, good, good, cellWithoutParagraph>> >> }

\* The types given to the File constructor.
FileTypes ==
  { PdfType, DocxType, DocmType, "text/plain", "image/jpeg",
    "application/unknown", "application/msword" }

\* What PDFParse answers for the bytes of a PDF file: getText rejects, or
\* it resolves to a text.
PdfParses ==
  {noParse}
  \cup { [ok |-> TRUE, text |-> t] :
           t \in { <<>>, <<W(10)>>, <<TITLE, NL, NUMLINE, NL, W(10)>>,
                   <<TITLE, SP, NL, W(10)>>, <<TITLE, SP, W(10), NL, NUMLINE>>,
                   <<NUMLINE, W(10), PB, TITLE>> } }

\* The files handed to createChunkerModule: File objects of any type, empty
\* or not; a Word file with or without a header part, the header of any
\* shape; a PDF file with any answer of the parser.
Files ==
  { [type |-> fileType(t), size |-> z, hasHeader |-> FALSE, header |-> <<>>,
     parse |-> noParse] :
      t \in FileTypes, z \in {0, 1} }
  \cup { [type |-> fileType(DocxType), size |-> 1, hasHeader |-> TRUE,
          header |-> h, parse |-> noParse] :
           h \in FullHeaders \cup MalformedHeaders }
  \cup { [type |-> fileType(DocmType), size |-> 1, hasHeader |-> TRUE,
          header |-> h, parse |-> noParse] : h \in MalformedHeaders }
  \cup { [type |-> fileType(PdfType), size |-> 1, hasHeader |-> FALSE,
          header |-> <<>>, parse |-> r] : r \in PdfParses }

\* No classification is requested and the chunker is not running.
InitCreate ==
  /\ ChunkerIdle
  /\ ClassifierIdle
  /\ CleanserIdle
  /\ RerunIdle
  /\ WatcherIdle
  /\ file \in Files
  /\ alreadyChunked \in BOOLEAN
  /\ factoryRevision \in {1, 2}
  /\ fpc = "start"
  /\ created = "none"
  /\ error = <<>>
  /\ headerMetadata = <<>>

\* createChunkerModule up to the create call it awaits: the later revision
\* first asks the database whether the path was chunked already.
CreateChunkerModule ==
  /\ fpc = "start"
  /\ IF factoryRevision = 2 /\ alreadyChunked
     THEN /\ created' = "null"
          /\ fpc' = "done"
          /\ error' = error
     ELSE LET d == dispatch(file.type, factoryRevision)
          IN /\ created' = created
             /\ fpc' = IF d = "pdf" THEN "pdfCreate"
                       ELSE IF d = "word" THEN "wordCreate" ELSE "done"
             /\ error' = IF d = "unsupported"
                         THEN <<"Unsupported file type: ", file.type>>
                         ELSE error
  /\ UNCHANGED <<file, alreadyChunked, factoryRevision, headerMetadata>>
  /\ UNCHANGED <<chunkVars, classVars, cleanseVars, buildVars, rerunVars, watchVars>>

\* PDFChunker.create: an empty file is refused; otherwise the file is read
\* and parsed, which may reject, and the metadata are extracted from the text.
PDFChunkerCreate ==
  /\ fpc = "pdfCreate"
  /\ IF file.size = 0
     THEN /\ error' = <<"Cannot create PDFChunker: file is empty.">>
          /\ UNCHANGED <<created, variant, parsedText, documentMetadata,
                         headerMetadata>>
     ELSE IF ~file.parse.ok
     THEN /\ error' = <<"Invalid PDF structure">>
          /\ UNCHANGED <<created, variant, parsedText, documentMetadata,
                         headerMetadata>>
     ELSE LET md == extractDocumentMetadata(file.parse.text)
          IN /\ created' = "pdf"
             /\ variant' = "pdf"
             /\ parsedText' = file.parse.text
             /\ documentMetadata' = <<md>>
             /\ headerMetadata' = <<md>>
             /\ error' = error
  /\ fpc' = "done"
  /\ UNCHANGED <<file, alreadyChunked, factoryRevision>>
  /\ UNCHANGED <<pc, outcome, text, sections, i, chunkIndex, currentSections,
                 wordCount, chunks, chunkStart, spans>>
  /\ UNCHANGED <<classVars, cleanseVars, buildVars, rerunVars, watchVars>>

\* WordChunker.create
WordChunkerCreate ==
  /\ fpc = "wordCreate"
  /\ LET md == extractHeaderMetadata(file)
     IN IF md.threw
        THEN /\ error' = <<md.error>>
             /\ created' = created
             /\ headerMetadata' = headerMetadata
        ELSE /\ created' = "word"
             /\ headerMetadata' = <<md.value>>
             /\ error' = error
  /\ fpc' = "done"
  /\ UNCHANGED <<file, alreadyChunked, factoryRevision>>
  /\ UNCHANGED <<chunkVars, classVars, cleanseVars, buildVars, rerunVars, watchVars>>

NextCreate == CreateChunkerModule \/ PDFChunkerCreate \/ WordChunkerCreate

\* One call of createChunkerModule on an arbitrary file.
SpecCreate == InitCreate /\ [][NextCreate]_vars

\* --------------------------------------------------------- cleanser inputs
\* The tokens the texts handed to the Word cleanser are made of.
WordTokens ==
  { LW("Date"), LW("Comment"), LW("letters"), COLON, SP, U(5), U(10),
    IMGPRE, B64 }

\* The pieces the texts handed to the PDF cleanser are made of: a page
\* marker, or one of the tokens a marker is made of.
PdfPieces == { PM, <<DD>>, <<NUM>>, <<OF>>, <<SP>> }

\* Every sequence of at most max elements of set.
textsOf(set, max) == UNION { [1..n -> set] : n \in 0..max }

InitCleanse ==
  /\ ChunkerIdle
  /\ ClassifierIdle
  /\ FactoryIdle
  /\ \/ cleanser = "word" /\ rawText \in textsOf(WordTokens, MaxWordTokens)
     \/ /\ cleanser = "pdf"
        /\ \E pieces \in textsOf(PdfPieces, MaxPdfPieces) :
             rawText = joinWith(pieces, <<>>)
  /\ cleanPc = "start"
  /\ onceText = <<>>
  /\ twiceText = <<>>
  /\ built = <<>>
  /\ RerunIdle
  /\ WatcherIdle

\* The cleansing functions of the chunker, in its order.
cleanse(which, t) == IF which = "word" THEN cleanseWord(t) ELSE cleanseText(t)

\* The cleanser runs on the text.
Cleanse ==
  /\ cleanPc = "start"
  /\ onceText' = cleanse(cleanser, rawText)
  /\ cleanPc' = "once"
  /\ UNCHANGED <<cleanser, rawText, twiceText>>
  /\ UNCHANGED <<chunkVars, classVars, factoryVars, buildVars, rerunVars, watchVars>>

\* The cleanser runs on its own output.
CleanseAgain ==
  /\ cleanPc = "once"
  /\ twiceText' = cleanse(cleanser, onceText)
  /\ cleanPc' = "twice"
  /\ UNCHANGED <<cleanser, rawText, onceText>>
  /\ UNCHANGED <<chunkVars, classVars, factoryVars, buildVars, rerunVars, watchVars>>

NextCleanse == Cleanse \/ CleanseAgain

\* A cleanser run on an arbitrary text, and again on what it returned.
SpecCleanse == InitCleanse /\ [][NextCleanse]_vars

\* ------------------------------------------------------------ insertChunks
\* const client = await pool.connect(): without a client the call throws
\* before its try block.
InsertConnect ==
  /\ ins.pc = "connect"
  /\ \E ok \in BOOLEAN :
       ins' = IF ok THEN [ins EXCEPT !.pc = "begin", !.acquired = 1]
              ELSE [ins EXCEPT !.pc = "threw", !.failed = TRUE]
  /\ UNCHANGED <<present, delivered, handlers, starts, chunkedFiles, chunkRows,
                 txRows>>
  /\ UNCHANGED notWatchVars

\* await client.query("BEGIN")
InsertBegin ==
  /\ ins.pc = "begin"
  /\ \E ok \in BOOLEAN :
       ins' = IF ok THEN [ins EXCEPT !.pc = "loop"]
              ELSE [ins EXCEPT !.pc = "rollback", !.failed = TRUE]
  /\ UNCHANGED <<present, delivered, handlers, starts, chunkedFiles, chunkRows,
                 txRows>>
  /\ UNCHANGED notWatchVars

\* One iteration of the for loop: the two checks and the INSERT.
InsertLoop ==
  /\ ins.pc = "loop"
  /\ ins.idx < Len(ins.chunks)
  /\ LET chunk == ins.chunks[ins.idx + 1]
         embedding == IF ins.idx < Len(ins.embeddings)
                      THEN ins.embeddings[ins.idx + 1] ELSE <<>>
     IN IF embedding = <<>> \/ chunk = <<>>
        THEN /\ ins' = [ins EXCEPT !.pc = "rollback", !.failed = TRUE]
             /\ UNCHANGED <<chunkRows, txRows>>
        ELSE \E ok \in BOOLEAN :
               IF ok
               THEN LET q == queryInsert(chunkRows, txRows,
                                         chunkRow(chunk, ins.fileId, embedding))
                    IN /\ chunkRows' = q.stored
                       /\ txRows' = q.tx
                       /\ ins' = [ins EXCEPT !.idx = ins.idx + 1]
               ELSE /\ ins' = [ins EXCEPT !.pc = "rollback", !.failed = TRUE]
                    /\ UNCHANGED <<chunkRows, txRows>>
  /\ UNCHANGED <<present, delivered, handlers, starts, chunkedFiles>>
  /\ UNCHANGED notWatchVars

\* await client.query("COMMIT") after the loop.
InsertCommit ==
  /\ ins.pc = "loop"
  /\ ins.idx >= Len(ins.chunks)
  /\ \E ok \in BOOLEAN :
       IF ok
       THEN /\ chunkRows' = chunkRows \cup txRows
            /\ txRows' = {}
            /\ ins' = [ins EXCEPT !.pc = "release"]
       ELSE /\ ins' = [ins EXCEPT !.pc = "rollback", !.failed = TRUE]
            /\ UNCHANGED <<chunkRows, txRows>>
  /\ UNCHANGED <<present, delivered, handlers, starts, chunkedFiles>>
  /\ UNCHANGED notWatchVars

\* catch (err) { await client.query("ROLLBACK"); throw err; }  The rows of
\* the open transaction are dropped, whether the server receives the
\* ROLLBACK or loses the connection.
InsertRollback ==
  /\ ins.pc = "rollback"
  /\ txRows' = {}
  /\ ins' = [ins EXCEPT !.pc = "release"]
  /\ UNCHANGED <<present, delivered, handlers, starts, chunkedFiles, chunkRows>>
  /\ UNCHANGED notWatchVars

\* finally { client.release(); }
InsertRelease ==
  /\ ins.pc = "release"
  /\ ins' = [ins EXCEPT !.released = ins.released + 1,
                        !.pc = IF ins.failed THEN "threw" ELSE "returned"]
  /\ UNCHANGED <<present, delivered, handlers, starts, chunkedFiles, chunkRows,
                 txRows>>
  /\ UNCHANGED notWatchVars

NextInsert ==
  \/ InsertConnect
  \/ InsertBegin
  \/ InsertLoop
  \/ InsertCommit
  \/ InsertRollback
  \/ InsertRelease

\* An element of the chunks array and of the embeddings array at index x:
\* present or missing.
ChunkElements(x) == { <<>>, <<x>> }

\* The arrays of up to max elements.
arraysOf(max) ==
  { a \in UNION { [1..n -> {<<>>} \cup { <<x>> : x \in 0..(max - 1) }] :
                    n \in 0..max } :
      \A x \in 1..Len(a) : a[x] \in ChunkElements(x - 1) }

\* Rows of another file that table chunks may hold before the call.
EarlierRows == { [file_id |-> 1, chunk_index |-> 0, embedding |-> 0] }

\* insertChunks is called with arrays of any shape for file 2.
InitInsert ==
  /\ ChunkerIdle
  /\ ClassifierIdle
  /\ FactoryIdle
  /\ CleanserIdle
  /\ RerunIdle
  /\ present = {}
  /\ delivered = <<>>
  /\ handlers = <<>>
  /\ starts = <<>>
  /\ chunkedFiles = <<>>
  /\ chunkRows \in SUBSET EarlierRows
  /\ txRows = {}
  /\ \E chunkList \in arraysOf(MaxChunks), embeddings \in arraysOf(MaxChunks) :
       ins = callInsert(chunkList, 2, embeddings, chunkRows, 0)

\* One call of insertChunks.
SpecInsert == InitInsert /\ [][NextInsert]_vars

\* ------------------------------------------------------- watcher and queue
\* The watcher calls the callback of main with an event: the handler call is
\* queued.  An add tells of a file that is in the directory (new, or found
\* by the scan at start), a change of a file that is there, an unlink of
\* one that has just been removed.
Deliver(event, path) ==
  /\ Len(delivered) < MaxEvents
  /\ event \in {"change", "unlink"} => path \in present
  /\ present' = IF event = "add" THEN present \cup {path}
                ELSE IF event = "unlink" THEN present \ {path}
                ELSE present
  /\ delivered' = Append(delivered, [event |-> event, path |-> path])
  /\ handlers' = Append(handlers, queuedHandler)
  /\ UNCHANGED <<starts, chunkedFiles, chunkRows, txRows, ins>>
  /\ UNCHANGED notWatchVars

\* What a throw does to a handler call: handleDirectoryAddFileEvent catches
\* it and returns, the other handlers have no try block.
afterThrow(hs, k, event) ==
  IF event = "add" THEN settle(hs, k, "fulfilled", "caught")
  ELSE settle(hs, k, "rejected", "threw")

\* The handler of event k is called and runs to its first await:
\* getFileFromPath throws when the file is not there; the remove handler has
\* no await and returns.
Start(k) ==
  /\ mayStart(handlers, k)
  /\ LET event == delivered[k].event
         path == delivered[k].path
         called == [handlers EXCEPT
                      ![k].started = TRUE,
                      ![k].recorded = path \in recordedPaths(chunkedFiles)]
     IN handlers' =
          IF event = "unlink" THEN settle(called, k, "fulfilled", "returned")
          ELSE IF path \notin present THEN afterThrow(called, k, event)
          ELSE [called EXCEPT ![k].pc = "lookup"]
  /\ starts' = Append(starts, k)
  /\ UNCHANGED <<present, delivered, chunkedFiles, chunkRows, txRows, ins>>
  /\ UNCHANGED notWatchVars

\* The promise of event k is rejected without a call of its handler.
Skip(k) ==
  /\ isSkipped(handlers, k)
  /\ handlers' = settle(handlers, k, "rejected", "skipped")
  /\ UNCHANGED <<present, delivered, starts, chunkedFiles, chunkRows, txRows,
                 ins>>
  /\ UNCHANGED notWatchVars

\* createChunkerModule when db.checkIfFileHasBeenChunked answers (false when
\* its query fails): null for a path that is recorded, else the switch on
\* file.type, which throws or calls the create of the chunker.
Lookup(k) ==
  /\ handlers[k].pc = "lookup"
  /\ LET event == delivered[k].event
         path == delivered[k].path
     IN \E queryOk \in BOOLEAN :
          LET found == queryOk /\ path \in recordedPaths(chunkedFiles)
              d == dispatch(typeOfPath[path], 2)
          IN handlers' =
               IF found THEN settle(handlers, k, "fulfilled", "null")
               ELSE IF d = "unsupported" THEN afterThrow(handlers, k, event)
               ELSE [handlers EXCEPT ![k].pc = "create"]
  /\ UNCHANGED <<present, delivered, starts, chunkedFiles, chunkRows, txRows,
                 ins>>
  /\ UNCHANGED notWatchVars

\* PDFChunker.create or WordChunker.create answers: it throws, or returns
\* the chunker.  The update handler then returns; the add handler calls
\* chunkDocument.
Create(k) ==
  /\ handlers[k].pc = "create"
  /\ LET event == delivered[k].event
     IN \E createOk \in BOOLEAN :
          handlers' =
            IF ~createOk THEN afterThrow(handlers, k, event)
            ELSE IF event = "change"
            THEN settle(handlers, k, "fulfilled", "returned")
            ELSE [handlers EXCEPT ![k].pc = "chunk", ![k].chunked = TRUE]
  /\ UNCHANGED <<present, delivered, starts, chunkedFiles, chunkRows, txRows,
                 ins>>
  /\ UNCHANGED notWatchVars

\* The add handler when chunkDocument answers: result is chunks.length, or
\* -1 when it throws.  The handler then asks for the embedding of every
\* chunk.
Chunk(k) ==
  /\ handlers[k].pc = "chunk"
  /\ \E result \in (-1)..MaxChunks :
       handlers' =
         IF result = -1 THEN settle(handlers, k, "fulfilled", "caught")
         ELSE [handlers EXCEPT ![k].pc = "embed", ![k].n = result]
  /\ UNCHANGED <<present, delivered, starts, chunkedFiles, chunkRows, txRows,
                 ins>>
  /\ UNCHANGED notWatchVars

\* The add handler when Promise.all of the embeddings answers:
\* ollama.createEmbedding does not throw, so every call has returned; with
\* no chunk the handler returns, else it calls db.insertChunkedFile.
Embed(k) ==
  /\ handlers[k].pc = "embed"
  /\ handlers' =
       IF handlers[k].n = 0 THEN settle(handlers, k, "fulfilled", "empty")
       ELSE [handlers EXCEPT ![k].pc = "insertFile"]
  /\ UNCHANGED <<present, delivered, starts, chunkedFiles, chunkRows, txRows,
                 ins>>
  /\ UNCHANGED notWatchVars

\* db.insertChunkedFile(file.name, path) answers: it throws, or returns the
\* id of the new row, and the handler calls db.insertChunks(chunks, fileId,
\* embeddings), the embeddings being what ollama.createEmbedding returned
\* for each chunk.
InsertFile(k) ==
  /\ handlers[k].pc = "insertFile"
  /\ ins.pc = "idle"
  /\ \E ok \in BOOLEAN :
       IF ok
       THEN LET fileId == Len(chunkedFiles) + 1
                list == [x \in 1..handlers[k].n |-> <<x - 1>>]
                embeddings == [x \in 1..handlers[k].n |->
                                 createEmbedding(list[x])]
            IN /\ chunkedFiles' = Append(chunkedFiles,
                                         [id |-> fileId,
                                          path |-> delivered[k].path])
               /\ handlers' = [handlers EXCEPT ![k].pc = "insertChunks",
                                               ![k].fileId = fileId]
               /\ ins' = callInsert(list, fileId, embeddings, chunkRows, k)
       ELSE /\ handlers' = settle(handlers, k, "fulfilled", "caught")
            /\ UNCHANGED <<chunkedFiles, ins>>
  /\ UNCHANGED <<present, delivered, starts, chunkRows, txRows>>
  /\ UNCHANGED notWatchVars

\* db.insertChunks has returned to the add handler, or thrown.
AfterInsert(k) ==
  /\ handlers[k].pc = "insertChunks"
  /\ ins.owner = k
  /\ ins.pc \in {"returned", "threw"}
  /\ handlers' = settle(handlers, k, "fulfilled",
                        IF ins.pc = "returned" THEN "saved" ELSE "caught")
  /\ ins' = idleInsert
  /\ UNCHANGED <<present, delivered, starts, chunkedFiles, chunkRows, txRows>>
  /\ UNCHANGED notWatchVars

\* The steps of a call of insertChunks by the add handler.  The call has a
\* chunk at index 0 whose embedding is undefined, so the loop throws there
\* and the COMMIT after the loop is not reached.
InsertFromHandler ==
  \/ InsertConnect
  \/ InsertBegin
  \/ InsertLoop
  \/ InsertRollback
  \/ InsertRelease

\* The steps of the handlers and of the promises of the queue.
HandlerStep ==
  \/ \E k \in 1..Len(handlers) : Start(k)
  \/ \E k \in 1..Len(handlers) : Skip(k)
  \/ \E k \in 1..Len(handlers) : Lookup(k)
  \/ \E k \in 1..Len(handlers) : Create(k)
  \/ \E k \in 1..Len(handlers) : Chunk(k)
  \/ \E k \in 1..Len(handlers) : Embed(k)
  \/ \E k \in 1..Len(handlers) : InsertFile(k)
  \/ \E k \in 1..Len(handlers) : AfterInsert(k)
  \/ InsertFromHandler

NextWatch ==
  \/ \E event \in Events, path \in Paths : Deliver(event, path)
  \/ HandlerStep

InitWatch ==
  /\ ChunkerIdle
  /\ ClassifierIdle
  /\ FactoryIdle
  /\ CleanserIdle
  /\ RerunIdle
  /\ WatcherIdle

\* The program after main has started watching.
SpecWatch == InitWatch /\ [][NextWatch]_vars

\* The event loop runs every continuation that is ready.
SpecWatchFair == SpecWatch /\ WF_vars(HandlerStep)

\* ------------------------------------------------- properties of the chunker
\* The largest word count a chunk may grow to: targetWords * 1.2.
maxChunkWords == (targetWords * 12) \div 10

\* No section of the document is a table block.
NoTables == \A x \in 1..Len(sections) : ~startsWithPipe(sections[x])

\* The text of every chunk is its sections of the input, joined.
SpansMatchText ==
  /\ Len(spans) = Len(chunks)
  /\ \A k \in 1..Len(chunks) :
       /\ spans[k].first <= spans[k].last
       /\ chunks[k].text =
            join(SubSeq(sections, spans[k].first + 1, spans[k].last + 1))

\* Some chunk begins inside the chunk before it (the cursor was rewound).
Rewound == \E k \in 2..Len(spans) : spans[k].first <= spans[k - 1].last

\* C1: the chunkIndex values of the chunk list are 0, 1, ..., n-1 in list
\* order, also after the read cursor was rewound for overlap.
C1_ChunkIndexSequential ==
  \A k \in 1..Len(chunks) : chunks[k].chunkIndex = k - 1

C1_Witness ==
  /\ pc = "done"
  /\ Len(chunks) >= 3
  /\ Rewound

\* C2: a chunk has contentType "table" exactly when it consists of one table
\* block and nothing else; a table block never shares a chunk with another
\* section.
C2_TableChunkIsOneTable ==
  \A k \in 1..Len(chunks) :
    LET secs == splitSections(chunks[k].text)
    IN /\ (chunks[k].contentType = "table") <=>
            (Len(secs) = 1 /\ startsWithPipe(secs[1]))
       /\ \A j \in 1..Len(secs) : startsWithPipe(secs[j]) => Len(secs) = 1

C2_Witness ==
  /\ pc = "done"
  /\ \E k \in 2..(Len(chunks) - 1) :
       /\ chunks[k].contentType = "table"
       /\ chunks[k + 1].contentType = "text"
       /\ \E j \in 1..(k - 1) : spans[j].last > spans[j].first

\* C3: a non-table chunk has at most targetWords * 1.2 = 480 words, unless
\* its first section alone has more, and then it is that one section.
C3_WordCountBound ==
  \A k \in 1..Len(chunks) :
    chunks[k].contentType = "text" =>
      LET secs == splitSections(chunks[k].text)
      IN IF countWords(secs[1]) > maxChunkWords
         THEN Len(secs) = 1
         ELSE chunks[k].wordCount <= maxChunkWords

C3_Witness ==
  /\ pc = "done"
  /\ \E k \in 1..Len(chunks) :
       /\ chunks[k].contentType = "text"
       /\ chunks[k].wordCount = maxChunkWords
       /\ spans[k].last > spans[k].first
  /\ \E k \in 1..Len(chunks) :
       /\ chunks[k].contentType = "text"
       /\ chunks[k].wordCount > maxChunkWords

\* C4 as claimed: in a document without table blocks every chunk after the
\* first contains the last section of the chunk before it.
C4_EveryChunkOverlaps ==
  NoTables =>
    \A k \in 2..Len(spans) :
      spans[k].first <= spans[k - 1].last /\ spans[k - 1].last <= spans[k].last

\* C4 amended: in a document without table blocks a chunk that follows a
\* chunk of two or more sections contains that chunk's last section and
\* begins after its first section; a chunk that follows a chunk of one
\* section begins at the next section and shares nothing with it.
C4_OverlapAfterMultiSectionChunk ==
  NoTables =>
    \A k \in 2..Len(spans) :
      IF spans[k - 1].last > spans[k - 1].first
      THEN /\ spans[k - 1].first < spans[k].first
           /\ spans[k].first <= spans[k - 1].last
           /\ spans[k - 1].last <= spans[k].last
      ELSE spans[k].first = spans[k - 1].last + 1

C4_Witness ==
  /\ pc = "done"
  /\ NoTables
  /\ \E k \in 2..Len(spans) : spans[k].first < spans[k - 1].last
  /\ \E k \in 2..Len(spans) : spans[k].first = spans[k - 1].last + 1

\* C5: after a table chunk the cursor is not rewound: the next chunk begins
\* at the section that follows the table, and a table block is in exactly
\* one chunk.
C5_NoOverlapAfterTable ==
  /\ \A k \in 1..Len(chunks) :
       chunks[k].contentType = "table" =>
         /\ (k = Len(chunks) /\ pc = "outer") => i = spans[k].last + 1
         /\ k < Len(chunks) => spans[k + 1].first = spans[k].last + 1
  /\ \A x \in 1..Len(sections) :
       startsWithPipe(sections[x]) =>
         LET holders == {k \in 1..Len(spans) :
                           spans[k].first <= x - 1 /\ x - 1 <= spans[k].last}
         IN /\ Cardinality(holders) <= 1
            /\ (pc = "done" /\ outcome = "returned") => Cardinality(holders) = 1

C5_Witness ==
  /\ pc = "done"
  /\ \E k \in 2..(Len(chunks) - 1) :
       /\ chunks[k].contentType = "table"
       /\ Rewound
       /\ spans[k + 1].first = spans[k].last + 1

\* A variant of the two loops: it is never negative and every step of
\* _chunkByParagraphsAndTables makes it smaller.
Rank ==
  LET L == Len(sections)
      K == L + 4
  IN CASE pc = "start" -> 0
       [] pc = "outer" -> (L - i) * K + (K - 1)
       [] pc = "inner" -> (L - chunkStart) * K + (L - i) + 1
       [] pc = "emit" -> (L - chunkStart) * K
       [] pc = "done" -> 0

RankDecreases ==
  pc \in {"outer", "inner", "emit"} => (Rank' < Rank /\ Rank' >= 0)

\* C6: the chunking loop terminates on every input (a variant decreases
\* with every step of the loops, also over the overlap rewind), and a text
\* that is empty or holds only white space yields no chunk.
C6_Terminates ==
  /\ [][RankDecreases]_vars
  /\ []((pc = "done" /\ outcome = "returned" /\ Trim(text) = <<>>)
          => chunks = <<>>)

C6_Witness ==
  /\ pc = "done"
  /\ outcome = "returned"
  /\ \E k \in 2..Len(spans) : spans[k].first < spans[k - 1].last
  /\ Len(chunks) >= 3

\* C7: chunkDocument returns an empty chunk list when the decoded body text
\* is empty, for the Word and for the PDF chunker.
C7_EmptyDocumentYieldsNoChunks ==
  (pc = "done" /\ parsedText = <<>>) =>
    (outcome = "returned" /\ chunks = <<>>)

\* ---------------------------------------------- properties of the classifier
\* C8: _identifySections returns the result with the strictly higher
\* confidence, and the lettered result when the two confidences are equal
\* and not zero.
C8_HigherConfidenceWins ==
  cpc = "done" =>
    /\ letterResult.confidence > numberResult.confidence
         => bestResult = letterResult
    /\ numberResult.confidence > letterResult.confidence
         => bestResult = numberResult
    /\ (letterResult.confidence = numberResult.confidence
         /\ letterResult.confidence > 0)
         => (bestResult = letterResult /\ bestResult.strategy = "lettered")

C8_Witness ==
  /\ cpc = "done"
  /\ letterResult.confidence = 9
  /\ numberResult.confidence = 9
  /\ bestResult.strategy = "lettered"

\* C9: when both strategies yield confidence 0, _identifySections returns a
\* result of strategy "fallback" with no sections and confidence 0.
C9_FallbackWhenBothZero ==
  (cpc = "done" /\ letterResult.confidence = 0 /\ numberResult.confidence = 0)
    => /\ bestResult.strategy = "fallback"
       /\ bestResult.sections = <<>>
       /\ bestResult.confidence = 0

\* All list items of the document lie in its one <ol>...</ol> list.
OneList ==
  /\ Len(matchOl(documentHtml)) = 1
  /\ documentHtml[1].tag = "ol"
  /\ \A x \in 1..Len(documentHtml) :
       documentHtml[x].tag = "li" =>
         \E y \in (x + 1)..Len(documentHtml) :
           /\ documentHtml[y].tag = "/ol"
           /\ \A z \in 1..y : documentHtml[z].tag # "/ol" \/ z = y

\* The confidence the policy of the specification gives for s sections and
\* q qualifying items out of t list items, in tenths.
policyConfidence(s, q, t) ==
  IF s >= 5 /\ 10 * q > 8 * t THEN 9
  ELSE IF s >= 3 /\ 10 * q > 7 * t THEN 7
  ELSE IF s >= 2 /\ 10 * q > 6 * t THEN 5
  ELSE IF s >= 1 THEN 3
  ELSE 0

\* C10: the confidence of the lettered strategy is the policy's function of
\* the section count s and the ratio r of the items that begin with a bold
\* title to all list items.
C10_LetterConfidencePolicy ==
  (cpc = "done" /\ OneList) =>
    letterResult.confidence =
      policyConfidence(Len(letterResult.sections),
                       Len(matchStrongLi(documentHtml)),
                       Len(matchLi(documentHtml)))

\* The first revision of the lettered strategy follows the policy.
LetterConfidencePolicyRevision1 == revision = 1 => C10_LetterConfidencePolicy

\* Six titled items out of six and no numbered heading: lettered, 0.9.
SixOfSixIsLettered ==
  (cpc = "done" /\ documentHtml = markup(6, 0, 0, "closed", 0, FALSE, FALSE)) =>
    (bestResult.strategy = "lettered" /\ bestResult.confidence = 9)

\* Some list item of the document begins with a bold title that starts with
\* a numeric pattern such as "1.0 ".
HasNumericTitle ==
  \E x \in 1..Len(documentHtml) :
    documentHtml[x].tag = "li" /\ documentHtml[x].title = "numeric"

\* C11: when a list item that begins with a bold run has a title starting
\* with a numeric pattern, the lettered strategy returns confidence 0 and no
\* section, however many other items qualify.
C11_NumericTitleDisqualifies ==
  (cpc = "done" /\ HasNumericTitle) =>
    (letterResult.confidence = 0 /\ letterResult.sections = <<>>)

\* The first revision of the lettered strategy is disqualified by a numeric
\* title of its main list.
NumericTitleDisqualifiesRevision1 ==
  (revision = 1 /\ OneList) => C11_NumericTitleDisqualifies

\* The positions of the numbered headings of the document.
numberedHeadings == matchNumberedH1(documentHtml)

\* C12: the content of the k-th section of the numbered strategy is the
\* markup from the end of the k-th numbered heading to the start of the
\* next numbered heading, or to the end of the document for the last one,
\* also when a heading without a number lies in between.
C12_NumberedContentToNextNumbered ==
  cpc = "done" =>
    /\ Len(numberResult.sections) = Len(numberedHeadings)
    /\ \A k \in 1..Len(numberResult.sections) :
         numberResult.sections[k].content =
           [from |-> numberedHeadings[k] + 1,
            to |-> IF k < Len(numberedHeadings)
                   THEN numberedHeadings[k + 1] - 1
                   ELSE Len(documentHtml)]

\* The second revision of the numbered strategy cuts the content at the
\* numbered headings.
NumberedContentRevision2 ==
  revision = 2 => C12_NumberedContentToNextNumbered

\* ------------------------------------------------ properties of the factory
\* WordChunker.create was called and has ended.
WordCreateEnded ==
  /\ fpc = "done"
  /\ created # "null"
  /\ dispatch(file.type, factoryRevision) = "word"

\* The text begins with one of the four labels.
beginsWithLabel(t) == t # <<>> /\ Head(t).k = "label"

\* C13: no value returned by _extractTextFromCell begins with one of the
\* labels "Procedure Title:", "Number:", "Effective:", "Revision:", also
\* when white space precedes the label in the cell or a label occurs twice.
C13_NoLabelPrefix ==
  (WordCreateEnded /\ created = "word") =>
    \A f \in {"documentTitle", "documentNumber", "effectiveDate", "revision"} :
      ~beginsWithLabel(headerMetadata[1][f])

\* A cell that begins with exactly one label and nothing before it loses it.
OneLeadingLabelIsStripped ==
  \A c \in CellParagraphs :
    LET t == concatRuns(c.runs) \o c.fld
    IN (beginsWithLabel(t) /\ ~beginsWithLabel(TrimStart(Tail(t))))
         => ~beginsWithLabel(extractTextFromCell(<<c>>).value)

\* C14: when word/header1.xml is absent, WordChunker.create fails with an
\* error and returns no chunker, so no chunk is produced for the document.
C14_MissingHeaderFails ==
  (WordCreateEnded /\ ~file.hasHeader) =>
    /\ error = <<"Header file not found in document">>
    /\ created = "none"
    /\ headerMetadata = <<>>
    /\ chunks = <<>>

C14_Witness ==
  /\ fpc = "done"
  /\ file.type = DocxType
  /\ ~file.hasHeader
  /\ error # <<>>
  /\ created = "none"

\* The metadata the specification describes for a header of any shape: a
\* field whose row, cell or paragraph is missing is the empty string, the
\* other fields are extracted.
degradedMetadata(rows) ==
  LET textOf(r, c) ==
        IF at(rows, r) = <<>> THEN <<>>
        ELSE LET e == extractTextFromCell(at(rows[r + 1], c))
             IN IF e.threw THEN <<>> ELSE e.value
  IN [documentTitle |-> textOf(0, 1), documentNumber |-> textOf(1, 1),
      effectiveDate |-> textOf(1, 2), revision |-> textOf(1, 3)]

\* C15: when the header is present but lacks an expected row, cell or
\* paragraph, metadata extraction does not throw; each affected field is the
\* empty string and the other fields are still extracted.
C15_MalformedHeaderDegrades ==
  (WordCreateEnded /\ file.hasHeader) =>
    /\ error = <<>>
    /\ created = "word"
    /\ headerMetadata = <<degradedMetadata(file.header)>>

\* With both rows and all four cells and paragraphs in place, extraction
\* succeeds.
FullHeaderIsExtracted ==
  (WordCreateEnded /\ file.hasHeader /\ file.header \in FullHeaders) =>
    /\ error = <<>>
    /\ created = "word"
    /\ headerMetadata = <<degradedMetadata(file.header)>>

\* What WordChunker.create(file) answers, as seen in the state.
IsWordCreateResult ==
  LET md == extractHeaderMetadata(file)
  IN IF md.threw THEN error = <<md.error>> /\ created = "none"
     ELSE error = <<>> /\ created = "word" /\ headerMetadata = <<md.value>>

\* What PDFChunker.create(file) answers, as seen in the state.
IsPdfCreateResult ==
  IF file.size = 0
  THEN error = <<"Cannot create PDFChunker: file is empty.">> /\ created = "none"
  ELSE IF ~file.parse.ok
  THEN error = <<"Invalid PDF structure">> /\ created = "none"
  ELSE /\ error = <<>>
       /\ created = "pdf"
       /\ parsedText = file.parse.text
       /\ documentMetadata = <<extractDocumentMetadata(file.parse.text)>>

IsRejected ==
  error = <<"Unsupported file type: ", file.type>> /\ created = "none"

\* C18: createChunkerModule dispatches on the MIME type of the file:
\* application/pdf gives a PDFChunker, the .docx type the result of
\* WordChunker.create(file), every other type is rejected with
\* "Unsupported file type: <type>" and no chunker is created.
C18_DispatchOnMimeType ==
  fpc = "done" =>
    IF file.type = PdfType THEN created = "pdf" /\ error = <<>>
    ELSE IF file.type = DocxType THEN IsWordCreateResult
    ELSE IsRejected

\* What the code does: a path that the database reports as chunked gives
\* null and no error in createChunkerModule.ts, whatever the type;
\* otherwise application/pdf gives what PDFChunker.create(file) answers,
\* its errors included, the .docx type what WordChunker.create(file)
\* answers, and every other type, the .docm type of a File among them, is
\* rejected.
DispatchUnlessAlreadyChunked ==
  fpc = "done" =>
    IF factoryRevision = 2 /\ alreadyChunked
    THEN created = "null" /\ error = <<>>
    ELSE IF file.type = PdfType THEN IsPdfCreateResult
    ELSE IF file.type = DocxType THEN IsWordCreateResult
    ELSE IsRejected

\* A PDF file of the earlier revision, whose path the database is not asked
\* about, is refused by PDFChunker.create.
PdfCreateRefuses ==
  /\ fpc = "done"
  /\ factoryRevision = 1
  /\ file.type = PdfType
  /\ created = "none"
  /\ error # <<>>

\* C19: for an empty (zero-byte) file of type application/pdf,
\* createChunkerModule returns a PDFChunker and does not fail.
C19_EmptyPdfYieldsChunker ==
  (fpc = "done" /\ file.type = PdfType /\ file.size = 0
     /\ ~(factoryRevision = 2 /\ alreadyChunked)) =>
    (created = "pdf" /\ error = <<>>)

\* ---------------------------------------------- properties of the cleansers
\* C16: the Word cleanser (image replacement, then the eight signature
\* rules) is idempotent: run on its own output it changes nothing.
C16_WordCleanserIdempotent ==
  (cleanPc = "twice" /\ cleanser = "word") => twiceText = onceText

C16_Witness ==
  /\ cleanPc = "twice"
  /\ cleanser = "word"
  /\ onceText # rawText
  /\ \E p \in 1..Len(onceText) : onceText[p].k = "[SIGNATURE LINE]"
  /\ \E p \in 1..Len(onceText) : onceText[p].k = "u"

\* A page marker starts at some position of the text.
hasPageMarker(t) == \E p \in 1..Len(t) : markerEnd(t, p) > 0

\* C17: after _cleanseText the text holds no page marker "-- <n> of <m> --",
\* also when the removal of a marker joins what surrounds it into another.
C17_NoPageMarkerLeft ==
  (cleanPc \in {"once", "twice"} /\ cleanser = "pdf") => ~hasPageMarker(onceText)

\* A text of whole page markers and spaces only is cleansed to nothing.
MarkersAloneAreRemoved ==
  (cleanPc \in {"once", "twice"} /\ cleanser = "pdf"
     /\ \E pieces \in textsOf({PM, <<SP>>}, MaxPdfPieces) :
          rawText = joinWith(pieces, <<>>))
    => onceText = <<>>

\* --------------------------------------------------- properties of chunk ids
\* C20: two distinct chunks of one chunkDocument result have different ids,
\* also when the document number is empty or the metadata is missing, and
\* two calls of buildChunk never return the same id.
C20_ChunkIdsDistinct ==
  /\ \A a, b \in 1..Len(chunks) : a # b => chunks[a].id # chunks[b].id
  /\ \A a, b \in 1..Len(built) : a # b => built[a].id # built[b].id

C20_Witness ==
  /\ pc = "done"
  /\ Len(chunks) >= 3
  /\ Rewound
  /\ metadataField(documentMetadata, "documentNumber", "") = ""
  /\ Len(built) = 2
  /\ built[1].text = built[2].text

\* The fields of a chunk other than createdAt.
comparedFields ==
  {"id", "text", "chunkIndex", "wordCount", "contentType", "documentTitle",
   "documentNumber", "effectiveDate", "revision"}

\* C21: two calls of _chunkByParagraphsAndTables on the same cleansed text
\* with the same header metadata return lists of the same length whose
\* chunks agree, position by position, on every field but createdAt.
C21_ChunkingIsDeterministic ==
  (run = 2 /\ pc = "done") =>
    /\ Len(chunks) = Len(firstChunks)
    /\ \A k \in 1..Len(chunks) :
         \A f \in comparedFields : chunks[k][f] = firstChunks[k][f]

C21_Witness ==
  /\ run = 2
  /\ pc = "done"
  /\ Len(chunks) >= 3
  /\ Rewound
  /\ \E k \in 1..Len(chunks) : chunks[k].contentType = "table"
  /\ \E k \in 1..Len(chunks) : chunks[k].createdAt # firstChunks[k].createdAt

\* The words of the j sections that end before read position idx.
RECURSIVE trailingWords(_, _, _)
trailingWords(secs, idx, j) ==
  IF j = 0 THEN 0
  ELSE countWords(secs[idx - j + 1]) + trailingWords(secs, idx, j - 1)

\* The smallest number >= 1 of trailing sections of a chunk of m sections
\* that ends before idx whose words total at least overlapWords, capped at
\* m - 1.
expectedRewind(secs, idx, m) ==
  LET enough == {j \in 1..(m - 1) : trailingWords(secs, idx, j) >= overlapWords}
  IN IF enough = {} THEN m - 1
     ELSE CHOOSE j \in enough : \A other \in enough : j <= other

\* The step that closes a chunk that does not end on a table while
\* sections remain rewinds the cursor by expectedRewind sections, and the
\* next chunk starts after the first section of the chunk just closed.
RewindsByExpected ==
  (/\ pc = "emit"
   /\ pc' = "outer"
   /\ ~startsWithPipe(currentSections[Len(currentSections)])
   /\ i < Len(sections))
    => /\ i' = i - expectedRewind(sections, i, Len(currentSections))
       /\ i' > chunkStart

\* C22: after a chunk of m sections that does not end on a table is closed
\* with sections remaining, the cursor is rewound by exactly k sections, k
\* the smallest number >= 1 of trailing sections whose words total at least
\* 50, capped at m - 1 (0 for a chunk of one section); the next chunk
\* starts strictly after the first section of the chunk just closed.
C22_RewindAmount == [][RewindsByExpected]_vars

\* A chunk of three sections was followed by a rewind of two sections, its
\* last section having fewer than 50 words, and a chunk of two sections by a
\* rewind of one, the cap, with fewer than 50 words re-included.
C22_Witness ==
  /\ pc = "done"
  /\ \E k \in 1..(Len(spans) - 1) :
       /\ spans[k].last = spans[k].first + 2
       /\ spans[k + 1].first = spans[k].last - 1
       /\ countWords(sections[spans[k].last + 1]) < overlapWords
  /\ \E k \in 1..(Len(spans) - 1) :
       /\ spans[k].last = spans[k].first + 1
       /\ spans[k + 1].first = spans[k].last
       /\ countWords(sections[spans[k].last + 1]) < overlapWords

\* The running word count of chunk k when it was closed: the words of its
\* sections, added up.
runningCount(k) ==
  trailingWords(sections, spans[k].last + 1, spans[k].last - spans[k].first + 1)

\* Why chunk k stopped growing.
reachedTarget(k) == runningCount(k) >= targetWords

noSectionRemains(k) == spans[k].last + 1 >= Len(sections)

nextIsTable(k) ==
  /\ ~noSectionRemains(k)
  /\ startsWithPipe(sections[spans[k].last + 2])

nextWouldExceed(k) ==
  /\ ~noSectionRemains(k)
  /\ 10 * (runningCount(k) + countWords(sections[spans[k].last + 2]))
       > 12 * targetWords

\* C23: a chunk that is not a table chunk stopped growing for one of four
\* reasons: its running word count reached 400, the next section is a
\* table block, adding the next section would make the count exceed 480,
\* or no section remains; otherwise the next section was added.
C23_GreedyAccumulation ==
  \A k \in 1..Len(spans) :
    chunks[k].contentType = "text" =>
      \/ reachedTarget(k)
      \/ nextIsTable(k)
      \/ nextWouldExceed(k)
      \/ noSectionRemains(k)

\* One document gave a chunk stopped only by the 480 limit, one stopped
\* only by a table block and one stopped only by the end of the sections,
\* and a chunk of several sections.
C23_Witness ==
  /\ pc = "done"
  /\ \E k \in 1..Len(spans) :
       /\ chunks[k].contentType = "text"
       /\ nextWouldExceed(k)
       /\ ~reachedTarget(k) /\ ~nextIsTable(k)
       /\ spans[k].last > spans[k].first
  /\ \E k \in 1..Len(spans) :
       /\ chunks[k].contentType = "text"
       /\ nextIsTable(k)
       /\ ~reachedTarget(k) /\ ~nextWouldExceed(k)
  /\ \E k \in 1..Len(spans) :
       /\ chunks[k].contentType = "text"
       /\ noSectionRemains(k)
       /\ ~reachedTarget(k)

\* The chunks that hold section x (zero-based).
holdersOf(x) ==
  {k \in 1..Len(spans) : spans[k].first <= x /\ x <= spans[k].last}

\* C29: every chunk is a contiguous run of the input sections in input
\* order, the start positions of successive chunks are strictly increasing
\* (and leave no gap), and when the chunker has returned every section of
\* the text that is not blank is in at least one chunk.
C29_ChunksCoverInput ==
  /\ sections \in {<<>>, splitSections(text)}
  /\ SpansMatchText
  /\ \A k \in 2..Len(spans) :
       /\ spans[k].first > spans[k - 1].first
       /\ spans[k].first <= spans[k - 1].last + 1
  /\ (pc = "done" /\ outcome = "returned") =>
       /\ sections = splitSections(text)
       /\ \A x \in 0..(Len(sections) - 1) : holdersOf(x) # {}

\* A document of four sections with a table block was chunked with a
\* rewind, a section being in two chunks, and blank pieces of the text were
\* dropped by the split.
C29_Witness ==
  /\ pc = "done"
  /\ outcome = "returned"
  /\ Len(sections) = 4
  /\ Len(splitBlankLines(text)) > Len(sections)
  /\ \E x \in 0..3 : Cardinality(holdersOf(x)) = 2
  /\ \E x \in 0..3 : startsWithPipe(sections[x + 1])

\* C30: every chunk after the first holds at least one section that is not
\* in the chunk before it, also when the section the cursor was rewound to
\* is followed by a table block or by a section too large to be added.
C30_NoPureRepetition ==
  \A k \in 2..Len(spans) : spans[k].last > spans[k - 1].last

\* ----------------------------------------------- properties of the pipeline
\* The handler of event k was called and has not settled.
executing(k) ==
  /\ handlers[k].started
  /\ handlers[k].pc \notin {"fulfilled", "rejected"}

\* The promise of event k is settled.
settled(k) == handlers[k].pc \in {"fulfilled", "rejected"}

\* C24: once a path is recorded in chunked_files, no later add event for
\* it chunks the file again or inserts a chunked_files row or chunk rows,
\* also when the lookup query fails.
C24_RecordedPathIsNotChunkedAgain ==
  /\ \A k \in 1..Len(handlers) :
       (delivered[k].event = "add" /\ handlers[k].recorded) =>
         /\ ~handlers[k].chunked
         /\ handlers[k].fileId = 0
  /\ \A x, y \in 1..Len(chunkedFiles) :
       chunkedFiles[x].path = chunkedFiles[y].path => x = y

\* In the pipeline no call of insertChunks reaches its COMMIT, and table
\* chunks stays empty.
CommitIsNotReached ==
  /\ ~(ins.pc = "loop" /\ ins.idx >= Len(ins.chunks))
  /\ ins.pc # "returned"
  /\ chunkRows = {}
  /\ txRows = {}

\* C25: at most one handler executes at any time, the handlers start in
\* the order in which their events were delivered, and the handler of an
\* event does not start before the handler of the event before it has
\* settled.
C25_HandlersAreSerialized ==
  /\ Cardinality({k \in 1..Len(handlers) : executing(k)}) <= 1
  /\ \A j \in 1..(Len(starts) - 1) : starts[j] < starts[j + 1]
  /\ \A k \in 2..Len(handlers) : handlers[k].started => settled(k - 1)

\* The add handler of the second event awaits insertChunks, which is in
\* its loop, after the first handler has settled, while a third event
\* waits.
C25_Witness ==
  /\ Len(handlers) = 3
  /\ handlers[1].pc = "fulfilled"
  /\ handlers[2].pc = "insertChunks"
  /\ ins.pc = "loop"
  /\ handlers[3].pc = "queued"
  /\ starts = <<1, 2>>

\* C26: every add, change or unlink event delivered eventually has its
\* handler run, whatever the outcome of the handlers before it.
C26_EveryHandlerRuns ==
  \A k \in 1..MaxEvents :
    [](Len(handlers) >= k => <>(Len(handlers) >= k /\ handlers[k].started))

\* The chunk rows stored for file fileId.
rowsOf(fileId) == {r \in chunkRows : r.file_id = fileId}

\* C27: when an add handler has finished, the path it recorded in
\* chunked_files has all of its chunks stored in chunks.
C27_FileRecordHasItsChunks ==
  \A k \in 1..Len(handlers) :
    (/\ delivered[k].event = "add"
     /\ handlers[k].pc = "fulfilled"
     /\ handlers[k].fileId # 0)
      => Cardinality(rowsOf(handlers[k].fileId)) = handlers[k].n

\* The rows a call of insertChunks with complete arrays stores.
completeRows(call) ==
  { [file_id |-> call.fileId, chunk_index |-> x, embedding |-> x] :
      x \in 0..(Len(call.chunks) - 1) }

\* C28: when insertChunks returns, every chunk of the list is stored with
\* the embedding of its index; when it throws, no chunk of the call is
\* stored; the client it took from the pool is released exactly once.
C28_InsertChunksAllOrNothing ==
  /\ ins.pc = "returned" =>
       /\ \A x \in 1..Len(ins.chunks) :
            /\ ins.chunks[x] # <<>>
            /\ x <= Len(ins.embeddings)
            /\ ins.embeddings[x] # <<>>
       /\ chunkRows = ins.before \cup completeRows(ins)
       /\ ins.acquired = 1
  /\ ins.pc = "threw" => chunkRows = ins.before
  /\ ins.pc \in {"returned", "threw"} =>
       /\ txRows = {}
       /\ ins.released = ins.acquired
  /\ ins.released <= ins.acquired
  /\ ins.acquired <= 1

\* The call threw for a missing embedding at index 1 after the INSERT of
\* the chunk at index 0, table chunks holding a row of another file.
C28_Witness ==
  /\ ins.pc = "threw"
  /\ ins.chunks = << <<0>>, <<1>> >>
  /\ ins.embeddings = << <<0>> >>
  /\ ins.idx = 1
  /\ ins.released = 1
  /\ chunkRows # {}
====
